---- MODULE Spec2Model ----
(***************************************************************************)
(* Metrodle SP: the station graph loader and distance search of            *)
(* stationLoader.ts, the daily pick of logic.ts, the persistence of        *)
(* state.ts and the guess state machine of index.ts.                       *)
(***************************************************************************)
EXTENDS Integers, Sequences, FiniteSets, TLC

(***************************************************************************)
(* Bounds of the model.                                                    *)
(***************************************************************************)
\* Number of distinct station QIDs that the CSV rows may mention.
NumQ == 3
\* Number of CSV rows (adjacencies.csv and interchanges.csv together) read.
MaxRows == 3
\* Number of days the clock may reach.
MaxDay == 2

QIds == 1..NumQ
\* extractQId returns null for a cell that holds no QID.
NullQ == 0

VARIABLES
    \* ---- stationLoader.ts: loadAdjacencyGraph ----
    loadPc,        \* position in loadAdjacencyGraph: "adj", "interchange", "loaded"
    graph,         \* AdjacencyGraph: QID -> neighbours, in Set insertion order
    interchanges,  \* interchange keys ("Q1-Q2" pairs)
    nrows,         \* rows read so far
    \* ---- stationLoader.ts: bfsDistances ----
    bfsPc,         \* "idle", "loop", "done"
    start,         \* start.wikidataId
    q,             \* the queue
    dist,          \* the Map<string, number> being built
    nset,          \* history: how many times dist.set was called for each QID
    \* ---- index.ts: the page ----
    pagePc,        \* position in boot: "closed", "stations", "ready", "crashed"
    today,         \* the clock: the current day (Sao Paulo time), as a day number
    todayKey,      \* const todayKey = getSPDateKey()
    STATIONS,      \* the roster
    DIST_FROM_SOLUTION,
    gameState,
    stats,
    hint,          \* hintEl.textContent
    knowledge,     \* const knowledge = logic.getKnownLineKnowledge(gameState, STATIONS)
    \* ---- the persistence store ----
    localStorage,  \* the items under STORAGE_KEY and STATS_KEY
    lastWrites,    \* history: the keys written (setItem) by the last handler
    counted,       \* history: the date keys for which stats.played was incremented
    \* ---- keyboard.ts ----
    guessInput,    \* input.value
    allowed,       \* const allowed = nextAllowedChars(input.value, stations, keywords)
    keyDisabled,   \* b.dataset.disabled of the buttons of the keyboard, by data-value
    \* ---- stationLoader.ts: loadStations ----
    stationsPc,    \* position in loadStations: "rows", "loaded", "failed"
    stationMap,    \* const map = new Map<string, Station>(), in insertion order
    stationRows,   \* the rows of stations.csv still to read
    stationsCache  \* let stationsCache: Station[] | null

graphVars == <<loadPc, graph, interchanges, nrows>>
bfsVars == <<bfsPc, start, q, dist, nset>>
pageVars == <<pagePc, today, todayKey, STATIONS, DIST_FROM_SOLUTION, gameState, stats, hint,
              knowledge>>
storeVars == <<localStorage, lastWrites, counted>>
keyboardVars == <<guessInput, allowed, keyDisabled>>
stationVars == <<stationsPc, stationMap, stationRows, stationsCache>>
gameVars == <<pageVars, storeVars, keyboardVars, stationVars>>
vars == <<graphVars, bfsVars, gameVars>>

(***************************************************************************)
(* Helpers for Map and Set values.                                         *)
(***************************************************************************)
EmptyMap == [x \in {} |-> 0]

Range(s) == {s[i] : i \in 1..Len(s)}

\* Set.add: appends unless present (a JS Set iterates in insertion order).
SetAdd(s, x) == IF x \in Range(s) THEN s ELSE Append(s, x)

\* Map.set
MapSet(m, k, v) == [x \in DOMAIN m \cup {k} |-> IF x = k THEN v ELSE m[x]]

(***************************************************************************)
(* stationLoader.ts: makeInterchangeKey, addEdge                           *)
(***************************************************************************)
makeInterchangeKey(a, b) == IF a < b THEN <<a, b>> ELSE <<b, a>>

\* Mutant of addEdge: without graph.get(b)!.add(a).
addEdge_OneWay(g, a, b) ==
    LET g1 == IF a \in DOMAIN g THEN g ELSE MapSet(g, a, <<>>)
        g2 == IF b \in DOMAIN g1 THEN g1 ELSE MapSet(g1, b, <<>>)
    IN  [g2 EXCEPT ![a] = SetAdd(@, b)]

addEdge(g, a, b) ==
    LET g1 == IF a \in DOMAIN g THEN g ELSE MapSet(g, a, <<>>)
        g2 == IF b \in DOMAIN g1 THEN g1 ELSE MapSet(g1, b, <<>>)
        g3 == [g2 EXCEPT ![a] = SetAdd(@, b)]
    IN  [g3 EXCEPT ![b] = SetAdd(@, a)]

(***************************************************************************)
(* stationLoader.ts: loadAdjacencyGraph, one action per row read           *)
(***************************************************************************)
\* for (const r of rows) of adjacencies.csv
ReadAdjacencyRow ==
    /\ loadPc = "adj"
    /\ nrows < MaxRows
    /\ \E a \in QIds \cup {NullQ}, b \in QIds \cup {NullQ} :
          graph' = IF a = NullQ \/ b = NullQ THEN graph ELSE addEdge(graph, a, b)
    /\ nrows' = nrows + 1
    /\ UNCHANGED <<loadPc, interchanges, bfsVars, gameVars>>

\* interchangeRes.ok: the interchange rows follow
FetchInterchanges ==
    /\ loadPc = "adj"
    /\ loadPc' = "interchange"
    /\ UNCHANGED <<graph, interchanges, nrows, bfsVars, gameVars>>

\* !interchangeRes.ok: no interchange is loaded
FetchInterchangesFailed ==
    /\ loadPc = "adj"
    /\ loadPc' = "loaded"
    /\ UNCHANGED <<graph, interchanges, nrows, bfsVars, gameVars>>

\* for (const r of interchangeRows)
ReadInterchangeRow ==
    /\ loadPc = "interchange"
    /\ nrows < MaxRows
    /\ \E a \in QIds \cup {NullQ}, b \in QIds \cup {NullQ} :
          IF a = NullQ \/ b = NullQ
          THEN UNCHANGED <<graph, interchanges>>
          ELSE /\ graph' = addEdge(graph, a, b)
               /\ interchanges' = interchanges \cup {makeInterchangeKey(a, b)}
    /\ nrows' = nrows + 1
    /\ UNCHANGED <<loadPc, bfsVars, gameVars>>

\* adjCache = graph; interchangeCache = interchanges; return graph
LoadReturn ==
    /\ loadPc = "interchange"
    /\ loadPc' = "loaded"
    /\ UNCHANGED <<graph, interchanges, nrows, bfsVars, gameVars>>

(***************************************************************************)
(* stationLoader.ts: bfsDistances                                          *)
(***************************************************************************)
\* Mutant of NeighbourLabel: the two branches of the conditional swapped.
NeighbourLabel_Swapped(d, isInterchange) == IF isInterchange THEN d + 1 ELSE d

\* dist.set(n, isInterchange ? d : d + 1)
NeighbourLabel(d, isInterchange) == IF isInterchange THEN d ELSE d + 1

\* Mutant of Unlabelled: the visited check left out.
Unlabelled_NoCheck(dm, n) == TRUE

\* if (!dist.has(n))
Unlabelled(dm, n) == n \notin DOMAIN dm

\* for (const n of nbrs) { if (!dist.has(n)) { ... dist.set(...); q.push(n) } }
\* over the neighbours nbrs[i..], from the record s = [q, dist, nset]
RECURSIVE VisitNeighbours(_, _, _, _, _, _)
VisitNeighbours(ix, nbrs, i, cur, d, s) ==
    IF i > Len(nbrs) THEN s
    ELSE LET n == nbrs[i]
             isInterchange == makeInterchangeKey(cur, n) \in ix
             s1 == IF Unlabelled(s.dist, n)
                   THEN [q    |-> Append(s.q, n),
                         dist |-> MapSet(s.dist, n, NeighbourLabel(d, isInterchange)),
                         nset |-> MapSet(s.nset, n, (IF n \in DOMAIN s.nset THEN s.nset[n] ELSE 0) + 1)]
                   ELSE s
         IN  VisitNeighbours(ix, nbrs, i + 1, cur, d, s1)

\* one iteration of while (q.length): cur = q.shift(), then the neighbours
BfsIteration(g, ix, s) ==
    LET cur == Head(s.q)
        d == s.dist[cur]
        s0 == [s EXCEPT !.q = Tail(s.q)]
    IN  IF cur \notin DOMAIN g THEN s0
        ELSE VisitNeighbours(ix, g[cur], 1, cur, d, s0)

\* const dist = new Map(); const q = [start.wikidataId]; dist.set(start.wikidataId, 0)
BfsEntry(s) == [q |-> <<s>>, dist |-> MapSet(EmptyMap, s, 0),
                nset |-> MapSet(EmptyMap, s, 1)]

bfsStart ==
    /\ loadPc = "loaded"
    /\ bfsPc \in {"idle", "done"}
    /\ \E s \in QIds :
          /\ start' = s
          /\ q' = BfsEntry(s).q
          /\ dist' = BfsEntry(s).dist
          /\ nset' = BfsEntry(s).nset
    /\ bfsPc' = "loop"
    /\ UNCHANGED <<graphVars, gameVars>>

bfsLoop ==
    /\ bfsPc = "loop"
    /\ q # <<>>
    /\ LET s == BfsIteration(graph, interchanges, [q |-> q, dist |-> dist, nset |-> nset])
       IN  /\ q' = s.q
           /\ dist' = s.dist
           /\ nset' = s.nset
    /\ UNCHANGED <<bfsPc, start, graphVars, gameVars>>

\* return dist
bfsReturn ==
    /\ bfsPc = "loop"
    /\ q = <<>>
    /\ bfsPc' = "done"
    /\ UNCHANGED <<start, q, dist, nset, graphVars, gameVars>>

\* bfsDistances run to its return: the while loop from the record s on.
RECURSIVE BfsRun(_, _, _)
BfsRun(g, ix, s) == IF s.q = <<>> THEN s.dist ELSE BfsRun(g, ix, BfsIteration(g, ix, s))

\* bfsDistances(start, graph) as one step, ix being interchangeCache: entry, loop, return dist
bfsDistances(g, ix, startQ) == BfsRun(g, ix, BfsEntry(startQ))

(***************************************************************************)
(* Text. A string is the sequence of its characters; a character that is   *)
(* not ASCII is written as a name ("e_acute" is U+00E9).                   *)
(***************************************************************************)
UpperChars == <<"A", "B", "C", "D", "E", "F", "G", "H", "I", "J", "K", "L", "M",
                "N", "O", "P", "Q", "R", "S", "T", "U", "V", "W", "X", "Y", "Z",
                "A_acute", "E_acute", "A_tilde", "C_cedil">>
LowerChars == <<"a", "b", "c", "d", "e", "f", "g", "h", "i", "j", "k", "l", "m",
                "n", "o", "p", "q", "r", "s", "t", "u", "v", "w", "x", "y", "z",
                "a_acute", "e_acute", "a_tilde", "c_cedil">>

\* String.prototype.toLowerCase
toLowerCase(str) ==
    [i \in 1..Len(str) |->
        IF \E k \in 1..Len(UpperChars) : UpperChars[k] = str[i]
        THEN LowerChars[CHOOSE k \in 1..Len(UpperChars) : UpperChars[k] = str[i]]
        ELSE str[i]]

\* String.prototype.trim
RECURSIVE trim(_)
trim(str) ==
    IF str = <<>> THEN str
    ELSE IF Head(str) = " " THEN trim(Tail(str))
    ELSE IF str[Len(str)] = " " THEN trim(SubSeq(str, 1, Len(str) - 1))
    ELSE str

\* String.prototype.includes
includes(str, sub) ==
    \E i \in 0..(Len(str) - Len(sub)) : SubSeq(str, i + 1, i + Len(sub)) = sub

(***************************************************************************)
(* keyboard.ts: normalize, nextAllowedChars.                               *)
(***************************************************************************)
\* U+0300-U+036F, the combining marks of the letters above
CombiningMarks == {"acute", "tilde", "cedilla"}

\* The canonical decomposition of a character.
Decomposition(c) ==
    CASE c = "a_acute" -> <<"a", "acute">>
      [] c = "e_acute" -> <<"e", "acute">>
      [] c = "a_tilde" -> <<"a", "tilde">>
      [] c = "c_cedil" -> <<"c", "cedilla">>
      [] c = "A_acute" -> <<"A", "acute">>
      [] c = "E_acute" -> <<"E", "acute">>
      [] c = "A_tilde" -> <<"A", "tilde">>
      [] c = "C_cedil" -> <<"C", "cedilla">>
      [] OTHER -> <<c>>

\* String.prototype.normalize('NFD')
RECURSIVE NFD(_)
NFD(str) == IF str = <<>> THEN <<>> ELSE Decomposition(Head(str)) \o NFD(Tail(str))

\* s.normalize('NFD').replace(/[\u0300-\u036f]/g, '').toLowerCase()
normalize(str) == toLowerCase(SelectSeq(NFD(str), LAMBDA c : c \notin CombiningMarks))

\* String.prototype.startsWith
startsWith(str, prefix) ==
    /\ Len(prefix) <= Len(str)
    /\ SubSeq(str, 1, Len(prefix)) = prefix

\* The body of each of the two loops, for one normalized name: what it adds to allowed.
AllowedOf(prefix, name) ==
    IF Len(prefix) = 0
    THEN IF Len(name) > 0 THEN {name[1]} ELSE {}
    ELSE IF startsWith(name, prefix) /\ Len(name) > Len(prefix) THEN {name[Len(prefix) + 1]}
    ELSE {}

\* keywords is the third argument (default [])
nextAllowedChars(prefixRaw, stations, keywords) ==
    LET prefix == normalize(trim(prefixRaw))
    IN  UNION ({AllowedOf(prefix, normalize(stations[i].name)) : i \in 1..Len(stations)}
               \cup {AllowedOf(prefix, normalize(keywords[i])) : i \in 1..Len(keywords)})

\* The keyboard before initKeyboard has rendered its buttons.
NoButtons == [v \in {} |-> FALSE]

\* The loop of update() over the buttons: b.dataset.disabled for each data-value.
\* No button of the keyboard carries BACKSPACE or OK.
dataDisabled(enabled, value, allowedSet, buttons) ==
    [v \in buttons |->
        IF ~enabled THEN TRUE
        ELSE IF v \in {"BACKSPACE", "OK"} THEN FALSE
        ELSE IF Len(value) = 0 THEN FALSE
        ELSE v \notin allowedSet]

\* Mutant of update: the keys follow the text whether the keyboard is enabled or not.
update_IgnoresEnabled(enabled, value, stations, keywords, buttons) ==
    LET allowedSet == IF Len(value) > 0
                      THEN nextAllowedChars(value, stations, keywords) ELSE {}
    IN  [allowed |-> allowedSet,
         disabled |-> dataDisabled(TRUE, value, allowedSet, buttons)]

\* api.update(): the Set allowed and the marks of the buttons
update(enabled, value, stations, keywords, buttons) ==
    LET allowedSet == IF enabled /\ Len(value) > 0
                      THEN nextAllowedChars(value, stations, keywords) ELSE {}
    IN  [allowed |-> allowedSet,
         disabled |-> dataDisabled(enabled, value, allowedSet, buttons)]

(***************************************************************************)
(* stationLoader.ts: normalizeLineLabel, loadStations. A row of            *)
(* stations.csv is the record of its columns station_code, stationLabel,   *)
(* station and connecting_lineLabel, each a string; a line id is the       *)
(* string of its digits.                                                   *)
(***************************************************************************)
DigitChars == <<"0", "1", "2", "3", "4", "5", "6", "7", "8", "9">>

Digits == {DigitChars[i] : i \in 1..10}

\* The strings of two digits, by their digits.
TwoDigitNames == <<<<"00", "01", "02", "03", "04", "05", "06", "07", "08", "09">>,
                   <<"10", "11", "12", "13", "14", "15", "16", "17", "18", "19">>,
                   <<"20", "21", "22", "23", "24", "25", "26", "27", "28", "29">>,
                   <<"30", "31", "32", "33", "34", "35", "36", "37", "38", "39">>,
                   <<"40", "41", "42", "43", "44", "45", "46", "47", "48", "49">>,
                   <<"50", "51", "52", "53", "54", "55", "56", "57", "58", "59">>,
                   <<"60", "61", "62", "63", "64", "65", "66", "67", "68", "69">>,
                   <<"70", "71", "72", "73", "74", "75", "76", "77", "78", "79">>,
                   <<"80", "81", "82", "83", "84", "85", "86", "87", "88", "89">>,
                   <<"90", "91", "92", "93", "94", "95", "96", "97", "98", "99">>>>

DigitValue(c) == CHOOSE n \in 0..9 : DigitChars[n + 1] = c

\* The number a string of digits writes.
RECURSIVE NumberOf(_)
NumberOf(digits) ==
    IF digits = <<>> THEN 0
    ELSE 10 * NumberOf(SubSeq(digits, 1, Len(digits) - 1)) + DigitValue(digits[Len(digits)])

\* The characters of a line id.
CharsOf(id) ==
    IF id \in Digits THEN <<id>>
    ELSE CHOOSE pair \in Digits \X Digits :
             TwoDigitNames[DigitValue(pair[1]) + 1][DigitValue(pair[2]) + 1] = id

\* The line id of one or two digits.
StringOf(digits) ==
    IF Len(digits) = 1 THEN digits[1]
    ELSE TwoDigitNames[DigitValue(digits[1]) + 1][DigitValue(digits[2]) + 1]

\* \w of a regular expression
IsWordChar(c) ==
    \/ c \in Digits
    \/ c = "_"
    \/ \E k \in 1..26 : c = UpperChars[k] \/ c = LowerChars[k]

\* \s of a regular expression
IsSpace(c) == c = " "

\* The string without the white space at its start.
RECURSIVE trimStart(_)
trimStart(str) ==
    IF str # <<>> /\ IsSpace(Head(str)) THEN trimStart(Tail(str)) ELSE str

\* .replace(/linha\s*/i, ''): the first 'linha', in any case, and the white space
\* after it are removed
replaceLinha(str) ==
    LET hits == {i \in 1..(Len(str) - 4) :
                    toLowerCase(SubSeq(str, i, i + 4)) = <<"l", "i", "n", "h", "a">>}
    IN  IF hits = {} THEN str
        ELSE LET i == CHOOSE h \in hits : \A k \in hits : h <= k
             IN  SubSeq(str, 1, i - 1) \o trimStart(SubSeq(str, i + 5, Len(str)))

\* .replace(/\u2013|\u2014/g, '-')
replaceDashes(str) ==
    [i \in 1..Len(str) |-> IF str[i] \in {"en_dash", "em_dash"} THEN "-" ELSE str[i]]

\* raw.match(/^(\d{1,2})\b/): the list of the group matched, or the empty list
\* when there is no match
matchLeadingNumber(raw) ==
    IF raw = <<>> \/ raw[1] \notin Digits THEN <<>>
    ELSE IF Len(raw) >= 2 /\ raw[2] \in Digits
         THEN IF Len(raw) >= 3 /\ IsWordChar(raw[3]) THEN <<>> ELSE <<SubSeq(raw, 1, 2)>>
         ELSE IF Len(raw) >= 2 /\ IsWordChar(raw[2]) THEN <<>> ELSE <<SubSeq(raw, 1, 1)>>

\* "Ramal de São Paulo"
RamalDeSaoPaulo == <<"R", "a", "m", "a", "l", " ", "d", "e", " ",
                     "S", "a_tilde", "o", " ", "P", "a", "u", "l", "o">>

IGNORED_LINES == {RamalDeSaoPaulo}

\* throw new Error(`Unknown line: ${raw}`)
UnknownLine == [exception |-> "Unknown line"]

\* The result is the list of the line id, the empty list for undefined, or
\* UnknownLine when the function throws.
normalizeLineLabel(label) ==
    LET raw == trim(replaceLinha(replaceDashes(label)))
        m == matchLeadingNumber(raw)
    IN  IF m # <<>> THEN [mapped |-> <<StringOf(m[1])>>]
        ELSE IF label \in IGNORED_LINES THEN [mapped |-> <<>>]
        ELSE UnknownLine

\* url.match(/Q\d+/i): the list of the number after the first Q that has digits
\* after it (the id "Q5" is the number 5), or the empty list for null
extractQId(url) ==
    LET hits == {i \in 1..(Len(url) - 1) : url[i] \in {"Q", "q"} /\ url[i + 1] \in Digits}
    IN  IF hits = {} THEN <<>>
        ELSE LET i == CHOOSE h \in hits : \A k \in hits : h <= k
                 last == CHOOSE j \in i + 1..Len(url) :
                             /\ \A k \in i + 1..j : url[k] \in Digits
                             /\ j = Len(url) \/ url[j + 1] \notin Digits
             IN  <<NumberOf(SubSeq(url, i + 1, last))>>

\* "Estação"
Estacao == <<"E", "s", "t", "a", "c_cedil", "a_tilde", "o">>

\* "Terminal Intermodal"
TerminalIntermodal == <<"T", "e", "r", "m", "i", "n", "a", "l", " ",
                        "I", "n", "t", "e", "r", "m", "o", "d", "a", "l">>

\* if (/^Estação\b/i.test(name)) name = name.replace(/^Estação\s+/i, '').trim()
stripEstacao(name) ==
    LET n == Len(Estacao)
    IN  IF /\ Len(name) >= n
           /\ toLowerCase(SubSeq(name, 1, n)) = toLowerCase(Estacao)
           /\ Len(name) = n \/ ~IsWordChar(name[n + 1])
        THEN IF Len(name) > n /\ IsSpace(name[n + 1])
             THEN trim(SubSeq(name, n + 1, Len(name)))
             ELSE trim(name)
        ELSE name

\* The order of two lists of ranks.
RanksLess(x, y) ==
    \E i \in 1..Len(y) :
        /\ \A k \in 1..(i - 1) : k <= Len(x) /\ x[k] = y[k]
        /\ i > Len(x) \/ x[i] < y[i]

\* The default order of Array.prototype.sort on strings: by code units.
StringLess(a, b) ==
    LET x == CharsOf(a)
        y == CharsOf(b)
    IN  RanksLess([i \in 1..Len(x) |-> DigitValue(x[i])],
                  [i \in 1..Len(y) |-> DigitValue(y[i])])

\* entry.lines.push(mapped); entry.lines.sort()
RECURSIVE InsertLine(_, _)
InsertLine(lines, mapped) ==
    IF lines = <<>> THEN <<mapped>>
    ELSE IF StringLess(mapped, Head(lines)) THEN <<mapped>> \o lines
    ELSE <<Head(lines)>> \o InsertLine(Tail(lines), mapped)

\* The place of a character in the collation of localeCompare: letters in
\* alphabetical order whatever their case and accent, after the blank.
CollationRank(c) ==
    LET base == normalize(<<c>>)[1]
    IN  IF \E k \in 1..26 : LowerChars[k] = base
        THEN CHOOSE k \in 1..26 : LowerChars[k] = base
        ELSE 0

\* Among the characters of one rank: plain before accented, lower case before
\* upper case.
VariantRank(c) ==
    LET all == LowerChars \o UpperChars
    IN  IF \E k \in 1..Len(all) : all[k] = c
        THEN CHOOSE k \in 1..Len(all) : all[k] = c
        ELSE 0

\* a.localeCompare(b) < 0
localeCompareLess(a, b) ==
    LET pa == [i \in 1..Len(a) |-> CollationRank(a[i])]
        pb == [i \in 1..Len(b) |-> CollationRank(b[i])]
        va == [i \in 1..Len(a) |-> VariantRank(a[i])]
        vb == [i \in 1..Len(b) |-> VariantRank(b[i])]
    IN  IF pa = pb THEN RanksLess(va, vb) ELSE RanksLess(pa, pb)

\* .sort((a, b) => a.name.localeCompare(b.name)): the sort is stable
RECURSIVE InsertByName(_, _)
InsertByName(sorted, s) ==
    IF sorted = <<>> THEN <<s>>
    ELSE IF localeCompareLess(s.name, Head(sorted).name) THEN <<s>> \o sorted
    ELSE <<Head(sorted)>> \o InsertByName(Tail(sorted), s)

RECURSIVE sortByName(_)
sortByName(list) ==
    IF list = <<>> THEN <<>>
    ELSE InsertByName(sortByName(SubSeq(list, 1, Len(list) - 1)), list[Len(list)])

\* map.get(code): the index of the entry in the map, or 0
EntryOf(map, code) ==
    IF \E i \in 1..Len(map) : map[i].id = code
    THEN CHOOSE i \in 1..Len(map) : map[i].id = code
    ELSE 0

\* One turn of the loop of loadStations over the row r: the map after it, or
\* UnknownLine when normalizeLineLabel throws.
loadStationsRow(map, r) ==
    LET code == trim(r.station_code)
        name == stripEstacao(trim(r.stationLabel))
        wikidataId == extractQId(trim(r.station))
        lab == trim(r.connecting_lineLabel)
        at == EntryOf(map, code)
        withEntry == IF at = 0
                     THEN Append(map, [id |-> code, name |-> name, lines |-> <<>>,
                                       wikidataId |-> wikidataId[1]])
                     ELSE [map EXCEPT ![at].wikidataId = wikidataId[1]]
        i == IF at = 0 THEN Len(map) + 1 ELSE at
        line == normalizeLineLabel(lab)
    IN  IF code = <<>> THEN [map |-> map]
        ELSE IF startsWith(name, TerminalIntermodal) THEN [map |-> map]
        ELSE IF wikidataId = <<>> THEN [map |-> map]
        ELSE IF lab = <<>> THEN [map |-> withEntry]
        ELSE IF line = UnknownLine THEN UnknownLine
        ELSE IF line.mapped = <<>> THEN [map |-> withEntry]
        ELSE IF \E k \in 1..Len(withEntry[i].lines) : withEntry[i].lines[k] = line.mapped[1]
             THEN [map |-> withEntry]
        ELSE [map |-> [withEntry EXCEPT ![i].lines = InsertLine(@, line.mapped[1])]]

(***************************************************************************)
(* The roster: what loadStations returns, sorted by name. Two releases of  *)
(* stations.csv: the second one adds a station.                            *)
(***************************************************************************)
AnaRosa == [id |-> "ANR", name |-> <<"A", "n", "a", " ", "R", "o", "s", "a">>,
            lines |-> <<"1", "2">>, wikidataId |-> 1]
Bras == [id |-> "BAS", name |-> <<"B", "r", "a_acute", "s">>,
         lines |-> <<"11", "3">>, wikidataId |-> 2]
Consolacao == [id |-> "CNS",
               name |-> <<"C", "o", "n", "s", "o", "l", "a", "c_cedil", "a_tilde", "o">>,
               lines |-> <<"2">>, wikidataId |-> 3]
JoseBonifacio == [id |-> "JBO",
                  name |-> <<"J", "o", "s", "e_acute", " ", "B", "o", "n", "i", "f",
                             "a_acute", "c", "i", "o">>,
                  lines |-> <<"11">>, wikidataId |-> 4]
Luz == [id |-> "LUZ", name |-> <<"L", "u", "z">>,
        lines |-> <<"1", "4">>, wikidataId |-> 5]
Paulista == [id |-> "PTA", name |-> <<"P", "a", "u", "l", "i", "s", "t", "a">>,
             lines |-> <<"4">>, wikidataId |-> 6]
Se == [id |-> "PSE", name |-> <<"S", "e_acute">>,
       lines |-> <<"1", "3">>, wikidataId |-> 7]
Tatuape == [id |-> "TAT", name |-> <<"T", "a", "t", "u", "a", "p", "e_acute">>,
            lines |-> <<"11", "12", "3">>, wikidataId |-> 8]

Roster1 == <<AnaRosa, Bras, Consolacao, JoseBonifacio, Luz, Paulista, Se>>
Roster2 == <<AnaRosa, Bras, Consolacao, JoseBonifacio, Luz, Paulista, Se, Tatuape>>
Rosters == {Roster1, Roster2}

\* adjacencies.csv and interchanges.csv of the releases; Tatuape is in neither.
GameAdjacencyRows == <<<<1, 3>>, <<6, 5>>, <<5, 7>>, <<7, 2>>, <<2, 4>>>>
GameInterchangeRows == <<<<3, 6>>>>

RECURSIVE LoadRows(_, _)
LoadRows(g, rows) ==
    IF rows = <<>> THEN g
    ELSE LoadRows(addEdge(g, Head(rows)[1], Head(rows)[2]), Tail(rows))

\* What loadAdjacencyGraph returns for these files.
GameGraph == LoadRows(LoadRows(EmptyMap, GameAdjacencyRows), GameInterchangeRows)
GameInterchanges == {makeInterchangeKey(r[1], r[2]) : r \in Range(GameInterchangeRows)}

\* bfsDistances over these files, from each station of the roster
GameDistances ==
    [w \in 1..Len(Roster2) |-> bfsDistances(GameGraph, GameInterchanges, w)]

\* bfsDistances(start, graph), read from the table when it applies
DistancesFrom(g, ix, w) ==
    IF g = GameGraph /\ ix = GameInterchanges /\ w \in DOMAIN GameDistances
    THEN GameDistances[w]
    ELSE bfsDistances(g, ix, w)

(***************************************************************************)
(* index.ts: getSPDateKey. The clock is a day number; day 1 is 2025-10-12. *)
(***************************************************************************)
Digit(n) == 48 + n

\* toISOString().slice(0, 10): "YYYY-MM-DD", as character codes
ISODate(y, m, d) ==
    <<Digit(y \div 1000), Digit((y \div 100) % 10), Digit((y \div 10) % 10), Digit(y % 10),
      45, Digit(m \div 10), Digit(m % 10), 45, Digit(d \div 10), Digit(d % 10)>>

getSPDateKey(day) == ISODate(2025, 10, 11 + day)

(***************************************************************************)
(* logic.ts: hashString, pickDailyStation. A 32-bit word is the pair       *)
(* <<high 16 bits, low 16 bits>>.                                          *)
(***************************************************************************)
RECURSIVE BitXor(_, _)
BitXor(a, b) ==
    IF a = 0 THEN b
    ELSE IF b = 0 THEN a
    ELSE (((a % 2) + (b % 2)) % 2) + 2 * BitXor(a \div 2, b \div 2)

\* h ^= s.charCodeAt(i)
XorCode(h, code) == <<h[1], BitXor(h[2], code)>>

\* Mutant of Imul16777619: the carry of the low half is lost.
Imul16777619_NoCarry(h) ==
    LET low == h[2] * 403
    IN  <<((h[1] * 403) + (h[2] * 256)) % 65536, low % 65536>>

\* Math.imul(h, 16777619): 16777619 = 256 * 2^16 + 403, product modulo 2^32
Imul16777619(h) ==
    LET low == h[2] * 403
    IN  <<((h[1] * 403) + (h[2] * 256) + (low \div 65536)) % 65536, low % 65536>>

\* 2166136261 >>> 0 = 0x811C9DC5
FnvOffset == <<33052, 40389>>

\* for (let i = 0; i < s.length; i++) { h ^= s.charCodeAt(i); h = Math.imul(h, 16777619); }
\* from the accumulator h at character i. The comparison of a round's result
\* with itself is always true: it makes TLC evaluate each round before the
\* next one, so that the evaluation does not nest one level for each character.
RECURSIVE HashFrom(_, _, _)
HashFrom(h, codes, i) ==
    IF i > Len(codes) THEN h
    ELSE LET round == Imul16777619(XorCode(h, codes[i]))
         IN  IF round = round THEN HashFrom(round, codes, i + 1) ELSE round

hashString(codes) == HashFrom(FnvOffset, codes, 1)

\* h % n for the word h
WordMod(h, n) == (((h[1] % n) * (65536 % n)) + (h[2] % n)) % n

\* 'metrodlesp:'
HashPrefix == <<109, 101, 116, 114, 111, 100, 108, 101, 115, 112, 58>>

\* const idx = hashString('metrodlesp:' + dateKey) % stations.length; return stations[idx]
pickDailyStation(dateKey, stations) ==
    LET idx == WordMod(hashString(HashPrefix \o dateKey), Len(stations))
    IN  stations[idx + 1]

\* The date keys of the days the clock may reach.
DateKeys == {getSPDateKey(day) : day \in 1..MaxDay}

\* pickDailyStation for the date keys and rosters of the model
DailyPicks == [k \in DateKeys |-> [r \in Rosters |-> pickDailyStation(k, r)]]

\* Mutant of DailyPick: the index moves with the games counted so far.
DailyPick_Stateful(dateKey, stations) ==
    LET idx == CHOOSE i \in 1..Len(stations) : stations[i] = DailyPicks[dateKey][stations]
    IN  stations[((idx - 1 + Len(counted)) % Len(stations)) + 1]

\* pickDailyStation(dateKey, stations), read from the table when it applies
DailyPick(dateKey, stations) ==
    IF dateKey \in DateKeys /\ stations \in Rosters
    THEN DailyPicks[dateKey][stations]
    ELSE pickDailyStation(dateKey, stations)

(***************************************************************************)
(* state.ts: the persistence store, loadState, saveState, loadStats,       *)
(* saveStats. A stored string is a JSON text, given by its document, or a  *)
(* text that does not parse; ls is localStorage with the keys written so   *)
(* far.                                                                    *)
(***************************************************************************)
STORAGE_KEY == "metrodlesp:state"
STATS_KEY == "metrodlesp:stats"

\* localStorage.getItem of a key never set
NoItem == [text |-> "null"]

\* the stored string ''
EmptyItem == [text |-> ""]

\* a stored string that is not JSON, such as '{'
BrokenItem == [text |-> "{"]

EmptyStorage == (STORAGE_KEY :> NoItem) @@ (STATS_KEY :> NoItem)

\* The values of the properties of a GameState or a Stats, as JSON.stringify
\* sees them: a string, a number, an array of strings or of numbers, undefined.
JSString(str) == [type |-> "string", v |-> str]
JSNumber(n) == [type |-> "number", v |-> n]
JSArray(items) == [type |-> "array", v |-> items]
JSUndefined == [type |-> "undefined"]

\* The own properties of a GameState, in the order of their creation.
StateProperties(s) ==
    <<<<"solutionId", JSString(s.solutionId)>>, <<"dateKey", JSString(s.dateKey)>>,
      <<"guesses", JSArray([i \in 1..Len(s.guesses) |-> JSString(s.guesses[i])])>>,
      <<"status", JSString(s.status)>>>>

\* lastDate is undefined until a game is counted
NoDate == <<>>

\* The own properties of a Stats.
StatsProperties(st) ==
    <<<<"played", JSNumber(st.played)>>, <<"wins", JSNumber(st.wins)>>,
      <<"streak", JSNumber(st.streak)>>, <<"best", JSNumber(st.best)>>,
      <<"dist", JSArray([i \in 1..Len(st.dist) |-> JSNumber(st.dist[i])])>>,
      <<"lastDate", IF st.lastDate = NoDate THEN JSUndefined ELSE JSString(st.lastDate)>>>>

\* Mutant of JSONstringify: an empty array is left out like an undefined value.
JSONstringify_NoEmptyArray(properties) ==
    [text |-> "json",
     members |-> SelectSeq(properties,
                           LAMBDA p : /\ p[2].type # "undefined"
                                      /\ ~(p[2].type = "array" /\ p[2].v = <<>>))]

\* JSON.stringify of an object: the text of its members, one for each property
\* whose value is not undefined.
JSONstringify(properties) ==
    [text |-> "json", members |-> SelectSeq(properties, LAMBDA p : p[2].type # "undefined")]

\* The value that a member of a JSON text denotes.
MemberValue(j) ==
    IF j.type = "array" THEN [i \in 1..Len(j.v) |-> j.v[i].v] ELSE j.v

\* JSON.parse: ok is FALSE when it throws; val is the object, a property for
\* each member of the text.
JSONparse(raw) ==
    IF raw.text = "json"
    THEN [ok |-> TRUE,
          val |-> [k \in {raw.members[i][1] : i \in 1..Len(raw.members)} |->
                      MemberValue(raw.members[
                          CHOOSE i \in 1..Len(raw.members) : raw.members[i][1] = k][2])]]
    ELSE [ok |-> FALSE]

setItem(ls, key, value) ==
    [items |-> [ls.items EXCEPT ![key] = value], writes |-> Append(ls.writes, key)]

saveState(ls, s) == setItem(ls, STORAGE_KEY, JSONstringify(StateProperties(s)))

saveStats(ls, st) == setItem(ls, STATS_KEY, JSONstringify(StatsProperties(st)))

\* if (raw): null and '' are falsy
Truthy(raw) == raw.text \notin {"null", ""}

\* {played: 0, wins: 0, streak: 0, best: 0, dist: [0, 0, 0, 0, 0, 0]}
FreshStats == [played |-> 0, wins |-> 0, streak |-> 0, best |-> 0,
               lastDate |-> NoDate, dist |-> <<0, 0, 0, 0, 0, 0>>]

\* Mutant of loadState: the stored record is returned when its date key matches,
\* whatever its solution.
loadState_DateOnly(dateKey, stations, ls) ==
    LET solution == DailyPick(dateKey, stations)
        raw == ls.items[STORAGE_KEY]
        parsed == IF Truthy(raw) THEN JSONparse(raw) ELSE [ok |-> FALSE]
        init == [solutionId |-> solution.id, dateKey |-> dateKey,
                 guesses |-> <<>>, status |-> "playing"]
    IN  IF parsed.ok /\ parsed.val.dateKey = dateKey
        THEN [ret |-> parsed.val, ls |-> ls]
        ELSE [ret |-> init, ls |-> saveState(ls, init)]

\* Mutant of loadState: the initial state is returned without being saved.
loadState_NoSave(dateKey, stations, ls) ==
    LET solution == DailyPick(dateKey, stations)
        raw == ls.items[STORAGE_KEY]
        parsed == IF Truthy(raw) THEN JSONparse(raw) ELSE [ok |-> FALSE]
        init == [solutionId |-> solution.id, dateKey |-> dateKey,
                 guesses |-> <<>>, status |-> "playing"]
    IN  IF parsed.ok /\ parsed.val.dateKey = dateKey /\ parsed.val.solutionId = solution.id
        THEN [ret |-> parsed.val, ls |-> ls]
        ELSE [ret |-> init, ls |-> ls]

\* the result is [ret |-> the GameState, ls |-> the store afterwards]
loadState(dateKey, stations, ls) ==
    LET solution == DailyPick(dateKey, stations)
        raw == ls.items[STORAGE_KEY]
        parsed == IF Truthy(raw) THEN JSONparse(raw) ELSE [ok |-> FALSE]
        init == [solutionId |-> solution.id, dateKey |-> dateKey,
                 guesses |-> <<>>, status |-> "playing"]
    IN  IF parsed.ok /\ parsed.val.dateKey = dateKey /\ parsed.val.solutionId = solution.id
        THEN [ret |-> parsed.val, ls |-> ls]
        ELSE [ret |-> init, ls |-> saveState(ls, init)]

\* `as Stats`: a property that the object does not have reads as undefined.
AsStats(o) == IF "lastDate" \in DOMAIN o THEN o ELSE o @@ [lastDate |-> NoDate]

\* An exception that leaves the call.
Thrown == [exception |-> "SyntaxError"]

\* Mutant of loadStats: JSON.parse outside any try.
loadStats_NoCatch(ls) ==
    LET raw == ls.items[STATS_KEY]
    IN  IF ~Truthy(raw) THEN FreshStats
        ELSE IF JSONparse(raw).ok THEN AsStats(JSONparse(raw).val)
        ELSE Thrown

loadStats(ls) ==
    LET raw == ls.items[STATS_KEY]
    IN  IF ~Truthy(raw) THEN FreshStats
        ELSE IF JSONparse(raw).ok THEN AsStats(JSONparse(raw).val)
        ELSE FreshStats

(***************************************************************************)
(* index.ts: stationById, stationByName, endGame, checkIfEnded,            *)
(* onSubmitGuess. m is the record of what a handler reads and writes:      *)
(* [STATIONS, gameState, stats, hint, ls, counted].                        *)
(***************************************************************************)
\* Array.prototype.find that finds nothing
Undefined == [undefined |-> TRUE]

stationById(stations, id) ==
    LET hits == {i \in 1..Len(stations) : stations[i].id = id}
    IN  IF hits = {} THEN Undefined
        ELSE stations[CHOOSE i \in hits : \A j \in hits : i <= j]

(***************************************************************************)
(* logic.ts: getKnownLineKnowledge. The two Sets are sets of line ids.     *)
(***************************************************************************)
\* Array.prototype.includes
ArrayIncludes(arr, x) == \E i \in 1..Len(arr) : arr[i] = x

\* reading a property of undefined
TypeError == [exception |-> "TypeError"]

\* Mutant of LinesLoop: eliminated.add(l) without the else.
RECURSIVE LinesLoop_NoElse(_, _, _, _)
LinesLoop_NoElse(solution, lines, j, k) ==
    IF j > Len(lines) THEN k
    ELSE LinesLoop_NoElse(solution, lines, j + 1,
             [eliminated |-> k.eliminated \cup {lines[j]},
              confirmed |-> IF ArrayIncludes(solution.lines, lines[j])
                            THEN k.confirmed \cup {lines[j]} ELSE k.confirmed])

\* for (const l of g.lines) { if (solution.lines.includes(l)) confirmed.add(l);
\* else eliminated.add(l); } from line j on, k being the two Sets
RECURSIVE LinesLoop(_, _, _, _)
LinesLoop(solution, lines, j, k) ==
    IF j > Len(lines) THEN k
    ELSE LinesLoop(solution, lines, j + 1,
             IF ArrayIncludes(solution.lines, lines[j])
             THEN [k EXCEPT !.confirmed = @ \cup {lines[j]}]
             ELSE [k EXCEPT !.eliminated = @ \cup {lines[j]}])

\* Mutant of GuessesLoop: the two Sets are created anew for each guess.
RECURSIVE GuessesLoop_SetsPerGuess(_, _, _, _, _)
GuessesLoop_SetsPerGuess(stations, solution, guesses, i, k) ==
    IF i > Len(guesses) THEN k
    ELSE LET g == stationById(stations, guesses[i])
         IN  IF g = Undefined THEN TypeError
             ELSE GuessesLoop_SetsPerGuess(stations, solution, guesses, i + 1,
                      LinesLoop(solution, g.lines, 1, [eliminated |-> {}, confirmed |-> {}]))

\* for (const gid of state.guesses) { const g = stations.find(s => s.id === gid)!; ... }
\* from guess i on
RECURSIVE GuessesLoop(_, _, _, _, _)
GuessesLoop(stations, solution, guesses, i, k) ==
    IF i > Len(guesses) THEN k
    ELSE LET g == stationById(stations, guesses[i])
         IN  IF g = Undefined THEN TypeError
             ELSE GuessesLoop(stations, solution, guesses, i + 1,
                              LinesLoop(solution, g.lines, 1, k))

getKnownLineKnowledge(state, stations) ==
    LET solution == stationById(stations, state.solutionId)
    IN  IF solution = Undefined /\ state.guesses # <<>> THEN TypeError
        ELSE GuessesLoop(stations, solution, state.guesses, 1,
                         [eliminated |-> {}, confirmed |-> {}])

stationByName(stations, name) ==
    LET n == toLowerCase(trim(name))
        hits == {i \in 1..Len(stations) : toLowerCase(stations[i].name) = n}
    IN  IF hits = {} THEN Undefined
        ELSE stations[CHOOSE i \in hits : \A j \in hits : i <= j]

\* STATIONS.find(s => s.name.toLowerCase().includes(name.trim().toLowerCase()))
stationByNamePart(stations, name) ==
    LET n == toLowerCase(trim(name))
        hits == {i \in 1..Len(stations) : includes(toLowerCase(stations[i].name), n)}
    IN  IF hits = {} THEN Undefined
        ELSE stations[CHOOSE i \in hits : \A j \in hits : i <= j]

\* Mutant of ResolveGuess: the first station whose name contains the text.
ResolveGuess_PartOnly(stations, name) == stationByNamePart(stations, name)

\* stationByName(name) || STATIONS.find(...)
ResolveGuess(stations, name) ==
    IF stationByName(stations, name) # Undefined
    THEN stationByName(stations, name)
    ELSE stationByNamePart(stations, name)

\* What the form may hold when it is submitted.
GuessInputs ==
    {Roster2[i].name : i \in 1..Len(Roster2)}
    \cup {<<"s", "e_acute">>,            \* a name in lower case, part of another name
          <<"b", "o", "n">>,            \* part of one name
          <<"a">>,                      \* part of several names
          <<" ", "L", "U", "Z", " ">>,  \* blanks around a name
          <<"x", "y", "z">>,            \* part of no name
          <<" ">>, <<>>}                \* nothing to submit

\* form 'submit': guessInput.value.trim(), for each of these texts
Trimmed == [raw \in GuessInputs |-> trim(raw)]

GuessTexts == {Trimmed[raw] : raw \in GuessInputs}

\* the resolution of a guess, for the rosters and the trimmed texts of the model
Resolutions ==
    [r \in Rosters |-> [t \in GuessTexts |-> ResolveGuess(r, t)]]

\* stationByName(name) || STATIONS.find(...), read from the table when it applies
Resolve(stations, name) ==
    IF stations \in Rosters /\ name \in GuessTexts
    THEN Resolutions[stations][name]
    ELSE ResolveGuess(stations, name)

HintNotFound == <<"Estacao nao encontrada.">>
HintDuplicate == <<"Voce ja tentou essa estacao.">>
HintFinished == <<"O jogo de hoje terminou.">>
HintCorrect(solution) == <<"Acertou! Era ", solution.name, ".">>
NoHint == <<>>

\* Mutant of StatsNotCounted: the once-per-day guard left out.
StatsNotCounted_Always(st, gs) == TRUE

\* if (stats.lastDate !== gameState.dateKey)
StatsNotCounted(st, gs) == st.lastDate # gs.dateKey

\* Mutant of Max2: the smaller of the two.
Max2_Smaller(a, b) == IF a > b THEN b ELSE a

\* Math.max
Max2(a, b) == IF a > b THEN a ELSE b

\* Mutant of endGame: a win leaves the histogram as it was.
endGame_NoBucket(won, m) ==
    LET gs == [m.gameState EXCEPT !.status = IF won THEN "won" ELSE "lost"]
        ls1 == saveState(m.ls, gs)
        m1 == [m EXCEPT !.gameState = gs, !.ls = ls1]
        st1 == [m.stats EXCEPT !.played = @ + 1, !.lastDate = gs.dateKey]
        st2 == IF won
               THEN [st1 EXCEPT !.wins = @ + 1,
                                !.streak = @ + 1,
                                !.best = Max2(@, st1.streak + 1)]
               ELSE [st1 EXCEPT !.streak = 0]
    IN  IF StatsNotCounted(m.stats, gs)
        THEN [m1 EXCEPT !.stats = st2,
                        !.ls = saveStats(ls1, st2),
                        !.counted = Append(@, gs.dateKey)]
        ELSE m1

\* Mutant of endGame: without gameState.status = won ? 'won' : 'lost'.
endGame_StatusKept(won, m) ==
    LET gs == m.gameState
        ls1 == saveState(m.ls, gs)
        m1 == [m EXCEPT !.gameState = gs, !.ls = ls1]
        attempts == Len(gs.guesses)
        st1 == [m.stats EXCEPT !.played = @ + 1, !.lastDate = gs.dateKey]
        st2 == IF won
               THEN [st1 EXCEPT !.wins = @ + 1,
                                !.streak = @ + 1,
                                !.best = Max2(@, st1.streak + 1),
                                !.dist = IF attempts >= 1 /\ attempts <= 6
                                         THEN [@ EXCEPT ![attempts] = @ + 1]
                                         ELSE @]
               ELSE [st1 EXCEPT !.streak = 0]
    IN  IF StatsNotCounted(m.stats, gs)
        THEN [m1 EXCEPT !.stats = st2,
                        !.ls = saveStats(ls1, st2),
                        !.counted = Append(@, gs.dateKey)]
        ELSE m1

endGame(won, m) ==
    LET gs == [m.gameState EXCEPT !.status = IF won THEN "won" ELSE "lost"]
        ls1 == saveState(m.ls, gs)
        m1 == [m EXCEPT !.gameState = gs, !.ls = ls1]
        attempts == Len(gs.guesses)
        st1 == [m.stats EXCEPT !.played = @ + 1, !.lastDate = gs.dateKey]
        st2 == IF won
               THEN [st1 EXCEPT !.wins = @ + 1,
                                !.streak = @ + 1,
                                !.best = Max2(@, st1.streak + 1),
                                !.dist = IF attempts >= 1 /\ attempts <= 6
                                         THEN [@ EXCEPT ![attempts] = @ + 1]
                                         ELSE @]
               ELSE [st1 EXCEPT !.streak = 0]
    IN  IF StatsNotCounted(m.stats, gs)
        THEN [m1 EXCEPT !.stats = st2,
                        !.ls = saveStats(ls1, st2),
                        !.counted = Append(@, gs.dateKey)]
        ELSE m1

\* Mutant of AttemptsExhausted: an off-by-one in the limit.
AttemptsExhausted_OffByOne(gs) == Len(gs.guesses) > 6

\* gameState.guesses.length >= 6
AttemptsExhausted(gs) == Len(gs.guesses) >= 6

\* Mutant of checkIfEnded: the attempt limit tested before the win.
checkIfEnded_LimitFirst(m) ==
    LET solution == stationById(m.STATIONS, m.gameState.solutionId)
        won == \E i \in 1..Len(m.gameState.guesses) : m.gameState.guesses[i] = solution.id
    IN  IF AttemptsExhausted(m.gameState) THEN endGame(FALSE, m)
        ELSE IF won THEN endGame(TRUE, m)
        ELSE m

checkIfEnded(m) ==
    LET solution == stationById(m.STATIONS, m.gameState.solutionId)
        won == \E i \in 1..Len(m.gameState.guesses) : m.gameState.guesses[i] = solution.id
    IN  IF won THEN endGame(TRUE, m)
        ELSE IF AttemptsExhausted(m.gameState) THEN endGame(FALSE, m)
        ELSE m

\* Mutant of AlreadyGuessed: only the previous guess is compared.
AlreadyGuessed_LastOnly(gs, match) ==
    gs.guesses # <<>> /\ gs.guesses[Len(gs.guesses)] = match.id

\* gameState.guesses.includes(match.id)
AlreadyGuessed(gs, match) == match.id \in Range(gs.guesses)

\* Mutant of GameOver: the finished game is not checked.
GameOver_Unchecked(gs) == FALSE

\* gameState.status !== 'playing'
GameOver(gs) == gs.status # "playing"

\* Mutant of Reject: the state is saved on every submission.
Reject_Saving(m, text) == [m EXCEPT !.hint = text, !.ls = saveState(@, m.gameState)]

\* setHint(text); return
Reject(m, text) == [m EXCEPT !.hint = text]

\* gameState.guesses.push(match.id); state.saveState(gameState): the record
\* is written with the status it has before checkIfEnded runs.
pushGuess(match, m) ==
    LET gs == [m.gameState EXCEPT !.guesses = Append(@, match.id)]
    IN  [m EXCEPT !.gameState = gs, !.ls = saveState(@, gs)]

\* Mutant of onSubmitGuess: the status is checked before the duplicate.
onSubmitGuess_StatusFirst(name, m) ==
    LET solution == stationById(m.STATIONS, m.gameState.solutionId)
        match == Resolve(m.STATIONS, name)
    IN  IF match = Undefined THEN Reject(m, HintNotFound)
        ELSE IF GameOver(m.gameState) THEN Reject(m, HintFinished)
        ELSE IF AlreadyGuessed(m.gameState, match) THEN Reject(m, HintDuplicate)
        ELSE LET gs == [m.gameState EXCEPT !.guesses = Append(@, match.id)]
                 m1 == [m EXCEPT !.gameState = gs,
                                 !.ls = saveState(@, gs),
                                 !.hint = IF match.id = solution.id
                                          THEN HintCorrect(solution) ELSE NoHint]
             IN  checkIfEnded(m1)

onSubmitGuess(name, m) ==
    LET solution == stationById(m.STATIONS, m.gameState.solutionId)
        match == Resolve(m.STATIONS, name)
    IN  IF match = Undefined THEN Reject(m, HintNotFound)
        ELSE IF AlreadyGuessed(m.gameState, match) THEN Reject(m, HintDuplicate)
        ELSE IF GameOver(m.gameState) THEN Reject(m, HintFinished)
        ELSE LET m1 == [pushGuess(match, m) EXCEPT
                            !.hint = IF match.id = solution.id
                                     THEN HintCorrect(solution) ELSE NoHint]
             IN  checkIfEnded(m1)

\* renderGuesses throws when a guess is not a station of the roster
renderGuessesThrows(stations, gs) ==
    \E i \in 1..Len(gs.guesses) : stationById(stations, gs.guesses[i]) = Undefined

\* Map.prototype.get: the value in a one-element list, or the empty list for
\* undefined
MapGet(m, k) == IF k \in DOMAIN m THEN <<m[k]>> ELSE <<>>

\* renderGuesses: the row of guess i. distHtml is the badge 'a <dist> parada(s)',
\* or '' (the empty list) when the guess is correct or typeof dist is not
\* 'number'.
GuessRow(stations, gs, D, i) ==
    LET solution == stationById(stations, gs.solutionId)
        s == stationById(stations, gs.guesses[i])
        correct == s.id = solution.id
        d == MapGet(D, s.wikidataId)
    IN  [name |-> s.name,
         correct |-> correct,
         distHtml |-> IF ~correct /\ d # <<>>
                      THEN <<"a", d[1], IF d[1] = 1 THEN "parada" ELSE "paradas">>
                      ELSE <<>>]

\* renderGuesses: the rows of the guesses made, or the TypeError of a guess that
\* is no station of the roster
renderGuesses(stations, gs, D) ==
    IF renderGuessesThrows(stations, gs) THEN TypeError
    ELSE [innerHTML |-> [i \in 1..Len(gs.guesses) |-> GuessRow(stations, gs, D, i)]]

\* Array equality of logic.ts
arrayEquals(a, b) == Len(a) = Len(b) /\ \A i \in 1..Len(a) : a[i] = b[i]

\* logic.ts, buildShare: the row of guess i. distTxt is what the template prints
\* between 'a' and 'paradas'; the empty list prints as 'undefined'.
ShareRow(stations, gs, D, i) ==
    LET solution == stationById(stations, gs.solutionId)
        guess == stationById(stations, gs.guesses[i])
    IN  [square |-> IF arrayEquals(guess.lines, solution.lines) THEN "green" ELSE "black",
         train |-> guess.id = solution.id,
         distTxt |-> IF guess.id = solution.id THEN <<>> ELSE MapGet(D, guess.wikidataId)]

\* logic.ts, buildShare: title, rows and attempts of the text, or the TypeError
\* of a guess that is no station of the roster
buildShare(gs, stations, D) ==
    IF renderGuessesThrows(stations, gs) THEN TypeError
    ELSE [title |-> gs.dateKey,
          rows |-> [i \in 1..Len(gs.guesses) |-> ShareRow(stations, gs, D, i)],
          attempts |-> IF gs.status = "won" THEN <<Len(gs.guesses)>> ELSE <<"X">>,
          site |-> "yancouto.github.io/metrodlesp"]

\* [title, ...rows, ` ${attempts}/6`, site].join('\n'), as the list of its lines
shareLines(share) ==
    <<[title |-> share.title]>>
    \o [i \in 1..Len(share.rows) |-> [row |-> share.rows[i]]]
    \o <<[attempts |-> share.attempts], [site |-> share.site]>>

(***************************************************************************)
(* index.ts: boot and the form's submit handler, as actions.               *)
(***************************************************************************)
\* let gameState: GameState, before boot assigns it
UndefinedState == [solutionId |-> "", dateKey |-> NoDate, guesses |-> <<>>,
                   status |-> "undefined"]

\* Nothing typed, and stations.csv loaded into the roster.
\* stationsCache = null
NullCache == [cache |-> "null"]

OthersIdle ==
    /\ guessInput = <<>>
    /\ allowed = {}
    /\ keyDisabled = NoButtons
    /\ stationsPc = "loaded"
    /\ stationMap = <<>>
    /\ stationRows = <<>>
    /\ stationsCache = NullCache

\* no suggestion rendered yet
NoKnowledge == [eliminated |-> {}, confirmed |-> {}]

GameIdle ==
    /\ pagePc = "closed"
    /\ today = 1
    /\ todayKey = NoDate
    /\ STATIONS = <<>>
    /\ DIST_FROM_SOLUTION = EmptyMap
    /\ gameState = UndefinedState
    /\ stats = FreshStats
    /\ hint = NoHint
    /\ knowledge = NoKnowledge
    /\ OthersIdle
    /\ localStorage = EmptyStorage
    /\ lastWrites = <<>>
    /\ counted = <<>>

\* The page is opened or reloaded, on the current day or a later one, with the
\* release then deployed (the one loaded before or a later one): boot up to
\* stats = state.loadStats().
PageLoad ==
    /\ \E day \in today..MaxDay, roster \in {r \in Rosters : Len(r) >= Len(STATIONS)} :
          \E r \in {loadState(getSPDateKey(day), roster,
                               [items |-> localStorage, writes |-> <<>>])} :
              /\ today' = day
              /\ todayKey' = getSPDateKey(day)
              /\ STATIONS' = roster
              /\ gameState' = r.ret
              /\ stats' = loadStats(r.ls)
              /\ localStorage' = r.ls.items
              /\ lastWrites' = r.ls.writes
    /\ pagePc' = "stations"
    /\ hint' = NoHint
    /\ DIST_FROM_SOLUTION' = EmptyMap
    /\ loadPc' = "adj"
    /\ graph' = EmptyMap
    /\ interchanges' = {}
    /\ UNCHANGED <<knowledge, counted, nrows, bfsVars, keyboardVars, stationVars>>

\* boot from loadAdjacencyGraph on: the graph of the release, the distances from
\* the solution, then initUI, whose renderGuesses may throw
BootFinish ==
    /\ pagePc = "stations"
    /\ loadPc = "adj"
    /\ graph' = GameGraph
    /\ interchanges' = GameInterchanges
    /\ loadPc' = "loaded"
    /\ DIST_FROM_SOLUTION' =
          DistancesFrom(GameGraph, GameInterchanges,
                        stationById(STATIONS, gameState.solutionId).wikidataId)
    /\ pagePc' = IF renderGuessesThrows(STATIONS, gameState) THEN "crashed" ELSE "ready"
    /\ lastWrites' = <<>>
    /\ UNCHANGED <<today, todayKey, STATIONS, gameState, stats, hint, knowledge,
                   localStorage, counted, nrows, bfsVars, keyboardVars, stationVars>>

\* What the handlers read and write.
Machine == [STATIONS |-> STATIONS, gameState |-> gameState, stats |-> stats, hint |-> hint,
            ls |-> [items |-> localStorage, writes |-> <<>>], counted |-> counted]

\* The store as state.ts reads it, with no write made yet.
Store == [items |-> localStorage, writes |-> <<>>]

\* form 'submit': const v = guessInput.value.trim(); if (!v) return; onSubmitGuess(v)
FormSubmitResult(raw) ==
    IF Trimmed[raw] = <<>> THEN Machine ELSE onSubmitGuess(Trimmed[raw], Machine)

\* The position of a station in the roster.
RosterIndex(stations, id) == CHOOSE i \in 1..Len(stations) : stations[i].id = id

\* The wrong stations not yet guessed that stand before position k of the roster.
PassedOver(k) ==
    {i \in 1..(k - 1) : /\ STATIONS[i].id \notin Range(gameState.guesses)
                        /\ STATIONS[i].id # gameState.solutionId}

\* The submissions explored. A text that names no station, an empty text, a
\* station already guessed and the solution may be submitted at any time; a
\* wrong station not yet guessed is submitted when no other one stands before
\* it in the roster. The handler reads the earlier guesses only through
\* includes() and length, which do not depend on which wrong stations they are.
InPlayOrder(raw) ==
    LET match == Resolve(STATIONS, Trimmed[raw])
    IN  IF Trimmed[raw] = <<>> THEN TRUE
        ELSE IF match = Undefined THEN TRUE
        ELSE IF match.id \in Range(gameState.guesses) THEN TRUE
        ELSE IF match.id = gameState.solutionId THEN TRUE
        ELSE PassedOver(RosterIndex(STATIONS, match.id)) = {}

FormSubmit ==
    /\ pagePc = "ready"
    /\ \E raw \in GuessInputs :
          /\ InPlayOrder(raw)
          /\ \E m \in {FormSubmitResult(raw)} :
              /\ gameState' = m.gameState
              /\ stats' = m.stats
              /\ hint' = m.hint
              /\ localStorage' = m.ls.items
              /\ lastWrites' = m.ls.writes
              /\ counted' = m.counted
    /\ UNCHANGED <<pagePc, today, todayKey, STATIONS, DIST_FROM_SOLUTION, knowledge,
                   graphVars, bfsVars, keyboardVars, stationVars>>

(***************************************************************************)
(* Specification of the game: the page over the loaded graph.              *)
(***************************************************************************)
GameInit ==
    /\ GameIdle
    /\ loadPc = "adj"
    /\ graph = EmptyMap
    /\ interchanges = {}
    /\ nrows = 0
    /\ bfsPc = "idle"
    /\ start = NullQ
    /\ q = <<>>
    /\ dist = EmptyMap
    /\ nset = EmptyMap

GameNext ==
    \/ PageLoad
    \/ BootFinish
    \/ FormSubmit

SpecGame == GameInit /\ [][GameNext]_vars

(***************************************************************************)
(* Specification of the graph loader and the distance search.              *)
(***************************************************************************)
\* boot has loaded the stations before it calls loadAdjacencyGraph: this
\* stations.csv has Ana Rosa (Q1) and Brás (Q2) and no station for Q3
GraphRoster == <<AnaRosa, Bras>>

GraphInit ==
    /\ loadPc = "adj"
    /\ graph = EmptyMap
    /\ interchanges = {}
    /\ nrows = 0
    /\ bfsPc = "idle"
    /\ start = NullQ
    /\ q = <<>>
    /\ dist = EmptyMap
    /\ nset = EmptyMap
    /\ pagePc = "closed"
    /\ today = 1
    /\ todayKey = NoDate
    /\ STATIONS = GraphRoster
    /\ DIST_FROM_SOLUTION = EmptyMap
    /\ gameState = UndefinedState
    /\ stats = FreshStats
    /\ hint = NoHint
    /\ knowledge = NoKnowledge
    /\ OthersIdle
    /\ localStorage = EmptyStorage
    /\ lastWrites = <<>>
    /\ counted = <<>>

GraphNext ==
    \/ ReadAdjacencyRow
    \/ FetchInterchanges
    \/ FetchInterchangesFailed
    \/ ReadInterchangeRow
    \/ LoadReturn
    \/ bfsStart
    \/ bfsLoop
    \/ bfsReturn

SpecGraph == GraphInit /\ [][GraphNext]_vars

(***************************************************************************)
(* Reference notions on the loaded graph, for the distance claims.         *)
(***************************************************************************)
Vertices == DOMAIN graph \cup (IF start = NullQ THEN {} ELSE {start})

Neighbours(v) == IF v \in DOMAIN graph THEN Range(graph[v]) ELSE {}

\* An edge whose pair is listed in interchanges.csv costs 0, any other edge 1.
IsInterchangeEdge(a, b) == <<a, b>> \in interchanges \/ <<b, a>> \in interchanges

HopCost(a, b) == IF IsInterchangeEdge(a, b) THEN 0 ELSE 1

\* The vertices joined to the set S by a path of edges (of interchange edges
\* only, when interchangeOnly).
RECURSIVE Closure(_, _)
Closure(S, interchangeOnly) ==
    LET T == S \cup {v \in Vertices : \E u \in S :
                        /\ v \in Neighbours(u)
                        /\ (interchangeOnly => IsInterchangeEdge(u, v))}
    IN  IF T = S THEN S ELSE Closure(T, interchangeOnly)

Reachable(s) == Closure({s}, FALSE)

InterchangeReachable(s) == Closure({s}, TRUE)

Infinity == 2 * NumQ + 1

Min2(a, b) == IF a < b THEN a ELSE b

RECURSIVE MinOver(_, _, _)
MinOver(S, D, v) ==
    IF S = {} THEN D[v]
    ELSE LET u == CHOOSE x \in S : TRUE
         IN  Min2(IF D[u] = Infinity THEN Infinity ELSE D[u] + HopCost(u, v),
                  MinOver(S \ {u}, D, v))

\* Bellman-Ford relaxation, k rounds.
RECURSIVE Relax(_, _)
Relax(D, k) ==
    IF k = 0 THEN D
    ELSE Relax([v \in Vertices |-> MinOver(Neighbours(v), D, v)], k - 1)

\* The least number of hop edges on a path from s to each vertex.
MinHops(s) == Relax([v \in Vertices |-> IF v = s THEN 0 ELSE Infinity], Cardinality(Vertices))

(***************************************************************************)
(* Claims on bfsDistances.                                                 *)
(***************************************************************************)
\* C1: the result of bfsDistances(start) maps every reachable vertex to the least
\* number of hop edges over all paths from the start (interchange edges add nothing).
C1_MinimumHopCount ==
    bfsPc = "done" =>
        /\ DOMAIN dist = Reachable(start)
        /\ \A v \in Reachable(start) : dist[v] = MinHops(start)[v]

\* C2: the start and every station joined to it by a path of interchange edges
\* only are at distance 0.
C2_InterchangeZero ==
    bfsPc = "done" =>
        \A v \in InterchangeReachable(start) : v \in DOMAIN dist /\ dist[v] = 0

\* The scenario "A adjacent to B (hop), B interchange with C", with A, B, C = 1, 2, 3.
ScenarioGraph == (1 :> <<2>>) @@ (2 :> <<1, 3>>) @@ (3 :> <<2>>)

InScenario == graph = ScenarioGraph /\ interchanges = {<<2, 3>>} /\ start = 1

\* C3: a station joined to the start by a hop edge, and by no path of interchange
\* edges only, is at distance 1; in the scenario the result is {A:0, B:1, C:1}.
C3_HopNeighbourIsOne ==
    bfsPc = "done" =>
        /\ \A b \in Neighbours(start) :
              b \notin InterchangeReachable(start) => (b \in DOMAIN dist /\ dist[b] = 1)
        /\ InScenario => dist = (1 :> 0) @@ (2 :> 1) @@ (3 :> 1)

\* The scenario has been searched from A.
C3_Witness == bfsPc = "done" /\ InScenario /\ dist[2] = 1 /\ dist[3] = 1

\* The stations of the roster, by wikidataId.
RosterQ == QIds

\* Decreases at every iteration of the while loop.
BfsMeasure == 2 * Cardinality(QIds \ DOMAIN dist) + Len(q)

C4_State ==
    /\ \A v \in DOMAIN nset : nset[v] <= 1
    /\ bfsPc = "done" =>
          /\ q = <<>>
          /\ start \in DOMAIN dist /\ dist[start] = 0
          /\ \A v \in DOMAIN dist : dist[v] \in Nat /\ v \in DOMAIN nset /\ nset[v] = 1
          /\ RosterQ \subseteq Reachable(start) => RosterQ \subseteq DOMAIN dist

C4_Step ==
    /\ bfsPc = "loop" /\ bfsPc' = "loop" => BfsMeasure' < BfsMeasure
    /\ bfsPc = "loop" /\ bfsPc' = "done" => q = <<>>
    /\ \A v \in DOMAIN dist : bfsPc = "loop" => v \in DOMAIN dist' /\ dist'[v] = dist[v]

\* C4: on a graph connected over the roster the result has a key for every roster
\* station, every value is a natural number and the start's is 0; the search ends
\* with an empty queue, having labelled each vertex exactly once.
C4_ResultWellFormed == [](C4_State) /\ [][C4_Step]_vars

\* A search over a graph that connects the whole roster has returned.
C4_Witness ==
    /\ bfsPc = "done"
    /\ RosterQ \subseteq Reachable(start)
    /\ interchanges # {}
    /\ \E v \in DOMAIN dist : dist[v] = 2

(***************************************************************************)
(* Claims on the guess state machine. In a state where the page is ready,  *)
(* FormSubmitResult(raw) is what a submission of the text raw would leave. *)
(***************************************************************************)
Terminal(gs) == gs.status \in {"won", "lost"}

\* The submission of raw is accepted: it appends one guess.
Accepts(raw) ==
    Len(FormSubmitResult(raw).gameState.guesses) = Len(gameState.guesses) + 1

\* The station that a submission of raw resolves to.
Resolved(raw) == Resolve(STATIONS, Trimmed[raw])

\* C5: after an accepted guess that is the solution the status is 'won', whatever
\* the number of attempts (the 6th included); after the 6th accepted guess, none
\* of the six being the solution, it is 'lost'; after any other accepted guess it
\* is still 'playing'.
C5_StatusAfterGuess ==
    pagePc = "ready" =>
        \A raw \in GuessInputs :
            Accepts(raw) =>
                LET gs == FormSubmitResult(raw).gameState
                    last == gs.guesses[Len(gs.guesses)]
                IN  gs.status =
                        IF last = gameState.solutionId THEN "won"
                        ELSE IF Len(gs.guesses) = 6 /\ gameState.solutionId \notin Range(gs.guesses)
                             THEN "lost"
                        ELSE "playing"

\* The solution has been accepted as the 6th guess.
C5_Witness ==
    /\ pagePc = "ready"
    /\ Len(gameState.guesses) = 6
    /\ gameState.guesses[6] = gameState.solutionId
    /\ gameState.status = "won"

C6_Step ==
    Terminal(gameState) =>
        /\ pagePc = "ready" =>
              \A raw \in GuessInputs : FormSubmitResult(raw).gameState = gameState
        /\ \/ gameState' = gameState
           \/ /\ pagePc' = "stations"
              /\ gameState'.guesses = <<>>
              /\ gameState'.status = "playing"
              /\ \/ gameState'.dateKey # gameState.dateKey
                 \/ gameState'.solutionId # gameState.solutionId

\* C6: once the status is 'won' or 'lost' no submission changes the status or the
\* guess list; the state is left only when loadState replaces it by a fresh state
\* for another date key or another daily solution.
C6_TerminalStays == [][C6_Step]_vars

\* A submission has been made to a finished game.
C6_Witness ==
    /\ pagePc = "ready"
    /\ gameState.status = "won"
    /\ hint = HintFinished

\* C7: whatever the submissions and reloads, the guess list has at most 6 entries.
C7_AtMostSixGuesses == Len(gameState.guesses) <= 6

\* Six wrong guesses have been accepted and the game is lost.
C7_Witness ==
    /\ Len(gameState.guesses) = 6
    /\ gameState.status = "lost"
    /\ Len(STATIONS) > 7

\* C8: a submission that resolves to a station of the guess list leaves the list
\* as it is, and the list never holds the same station id twice.
C8_NoDuplicateGuess ==
    /\ \A i, j \in 1..Len(gameState.guesses) :
          i # j => gameState.guesses[i] # gameState.guesses[j]
    /\ pagePc = "ready" =>
          \A raw \in GuessInputs :
              (/\ Trimmed[raw] # <<>>
               /\ Resolved(raw) # Undefined
               /\ Resolved(raw).id \in Range(gameState.guesses))
              => FormSubmitResult(raw).gameState.guesses = gameState.guesses

\* A station of the guess list has been submitted again in the middle of a game.
C8_Witness ==
    /\ pagePc = "ready"
    /\ hint = HintDuplicate
    /\ Len(gameState.guesses) >= 2
    /\ gameState.status = "playing"

\* The submission of raw is one that is to be rejected.
ToReject(raw) ==
    /\ Trimmed[raw] # <<>>
    /\ IF Resolved(raw) = Undefined THEN TRUE
       ELSE IF Resolved(raw).id \in Range(gameState.guesses) THEN TRUE
       ELSE gameState.status # "playing"

\* C9: a rejected submission (station not found, duplicate guess, game finished)
\* changes neither the GameState nor the Stats in memory and writes nothing to
\* the store.
C9_RejectedNoMutation ==
    pagePc = "ready" =>
        \A raw \in GuessInputs :
            ToReject(raw) =>
                LET m == FormSubmitResult(raw)
                IN  /\ m.gameState = gameState
                    /\ m.stats = stats
                    /\ m.ls.writes = <<>>
                    /\ m.ls.items = localStorage

\* A text that names no station has been submitted in the middle of a game.
C9_Witness ==
    /\ pagePc = "ready"
    /\ hint = HintNotFound
    /\ gameState.guesses # <<>>
    /\ lastWrites = <<>>

\* C10: the Stats record is incremented at most once for each date key, however
\* often endGame runs and the day is reloaded; it is incremented only when
\* stats.lastDate differs from the date key of the game.
C10_StatsOncePerDate ==
    /\ \A i, j \in 1..Len(counted) : i # j => counted[i] # counted[j]
    /\ stats.played = Len(counted)
    /\ pagePc = "ready" =>
          \A raw \in GuessInputs :
              FormSubmitResult(raw).stats # stats => stats.lastDate # gameState.dateKey

\* A second game of a day already counted has ended: it is lost, and the streak
\* of the game won earlier that day stands.
C10_Witness ==
    /\ pagePc = "ready"
    /\ gameState.status = "lost"
    /\ stats.lastDate = gameState.dateKey
    /\ stats.streak > 0

(***************************************************************************)
(* Claims on the Stats record and on what is written to the store.         *)
(***************************************************************************)
\* The submission of raw ends a game whose date key has not been counted yet.
FirstEnding(raw) ==
    /\ gameState.status = "playing"
    /\ Terminal(FormSubmitResult(raw).gameState)
    /\ \A i \in 1..Len(counted) : counted[i] # gameState.dateKey

\* C11: at the first ending of a date key played grows by 1; on a win, wins and
\* streak grow by 1, best becomes the larger of best and the new streak and the
\* bucket of the number of guesses (index guesses - 1 from 0) grows by 1, the
\* other buckets staying; on a loss streak becomes 0 and wins, best and the
\* histogram stay.
C11_StatsUpdate ==
    pagePc = "ready" =>
        \A raw \in GuessInputs :
            FirstEnding(raw) =>
                LET m == FormSubmitResult(raw)
                    n == Len(m.gameState.guesses)
                IN  /\ m.stats.played = stats.played + 1
                    /\ m.gameState.status = "won" =>
                          /\ m.stats.wins = stats.wins + 1
                          /\ m.stats.streak = stats.streak + 1
                          /\ m.stats.best = (IF stats.best > m.stats.streak
                                             THEN stats.best ELSE m.stats.streak)
                          /\ \A k \in 1..6 :
                                m.stats.dist[k] = stats.dist[k] + (IF k = n THEN 1 ELSE 0)
                    /\ m.gameState.status = "lost" =>
                          /\ m.stats.streak = 0
                          /\ m.stats.wins = stats.wins
                          /\ m.stats.best = stats.best
                          /\ m.stats.dist = stats.dist

\* A second day in a row has been won, in more than one guess.
C11_Witness ==
    /\ pagePc = "ready"
    /\ gameState.status = "won"
    /\ Len(gameState.guesses) > 1
    /\ stats.lastDate = gameState.dateKey
    /\ stats.streak = 2
    /\ stats.best = 2
    /\ stats.dist[Len(gameState.guesses)] > 0

\* C12: every accepted guess, one that leaves the status 'playing' included,
\* writes the GameState record and the Stats record to the store before
\* onSubmitGuess returns.
C12_BothRecordsWritten ==
    pagePc = "ready" =>
        \A raw \in GuessInputs :
            Accepts(raw) =>
                /\ STORAGE_KEY \in Range(FormSubmitResult(raw).ls.writes)
                /\ STATS_KEY \in Range(FormSubmitResult(raw).ls.writes)


OverrideDateKey == ISODate(2025, 10, 15)

\* C14: for the date key 2025-10-15, pickDailyStation returns the station named
\* Ana Rosa for the roster the page has loaded (every roster has that station),
\* whatever the hash index is.
C14_OverrideAnaRosa ==
    pagePc = "ready" =>
        /\ stationByName(STATIONS, AnaRosa.name) = AnaRosa
        /\ pickDailyStation(OverrideDateKey, STATIONS).name = AnaRosa.name


(***************************************************************************)
(* Claims on loadState, loadStats and the store.                           *)
(***************************************************************************)
\* C15: the GameState that loadState returns, for any date key and roster and
\* over any store the page can leave, has the requested date key and the id of
\* pickDailyStation(dateKey, roster) as its solution; the GameState of the page
\* keeps both through every submission.
C15_StateMatchesDailyPick ==
    /\ \A day \in 1..MaxDay, r \in Rosters :
          LET ret == loadState(getSPDateKey(day), r, Store).ret
          IN  /\ ret.dateKey = getSPDateKey(day)
              /\ ret.solutionId = DailyPick(getSPDateKey(day), r).id
    /\ pagePc # "closed" =>
          /\ gameState.dateKey = todayKey
          /\ gameState.solutionId = DailyPick(todayKey, STATIONS).id

\* A game of the first day has ended and is stored; the page has been loaded on
\* the second day and guesses have been submitted.
C15_Witness ==
    /\ pagePc = "ready"
    /\ todayKey = getSPDateKey(2)
    /\ Len(gameState.guesses) >= 2
    /\ counted # <<>>
    /\ counted[1] = getSPDateKey(1)


(***************************************************************************)
(* Specification of state.ts alone: loadState, saveState, loadStats and    *)
(* saveStats called in any order over a store that holds, under each key,  *)
(* nothing, a text that does not parse, or a record saved earlier. pagePc  *)
(* is the last call made.                                                  *)
(***************************************************************************)
\* The ids of the stations of a roster other than the solution, in roster order.
WrongIds(stations, solutionId) ==
    LET wrong == SelectSeq(stations, LAMBDA st : st.id # solutionId)
    IN  [i \in 1..Len(wrong) |-> wrong[i].id]

\* GameStates of the game of a date key under a roster: a new game, a game with
\* one wrong guess, a game won at the second guess, a game lost.
GamesOf(dateKey, stations) ==
    LET id == DailyPick(dateKey, stations).id
        wrong == WrongIds(stations, id)
    IN  {[solutionId |-> id, dateKey |-> dateKey, guesses |-> <<>>, status |-> "playing"],
         [solutionId |-> id, dateKey |-> dateKey, guesses |-> <<wrong[1]>>,
          status |-> "playing"],
         [solutionId |-> id, dateKey |-> dateKey, guesses |-> <<wrong[1], id>>,
          status |-> "won"],
         [solutionId |-> id, dateKey |-> dateKey, guesses |-> SubSeq(wrong, 1, 6),
          status |-> "lost"]}

SavedStates == UNION {GamesOf(k, r) : k \in DateKeys, r \in Rosters}

\* Stats: none counted, one game won at the second guess, then one lost.
SavedStats ==
    {FreshStats,
     [played |-> 1, wins |-> 1, streak |-> 1, best |-> 1,
      lastDate |-> getSPDateKey(1), dist |-> <<0, 1, 0, 0, 0, 0>>],
     [played |-> 2, wins |-> 1, streak |-> 0, best |-> 1,
      lastDate |-> getSPDateKey(2), dist |-> <<0, 1, 0, 0, 0, 0>>]}

\* What each key of the store may hold at the start.
StoredStateItems ==
    {NoItem, EmptyItem, BrokenItem} \cup {JSONstringify(StateProperties(s)) : s \in SavedStates}
\* The text an earlier build of the page stored under the same key: its Stats
\* type is {played, wins, streak, best, lastDate?}, with no histogram. Here
\* one game won on the first day.
LegacyStatsItem ==
    JSONstringify(<<<<"played", JSNumber(1)>>, <<"wins", JSNumber(1)>>,
                    <<"streak", JSNumber(1)>>, <<"best", JSNumber(1)>>,
                    <<"lastDate", JSString(getSPDateKey(1))>>>>)

StoredStatsItems ==
    {NoItem, EmptyItem, BrokenItem, LegacyStatsItem}
        \cup {JSONstringify(StatsProperties(st)) : st \in SavedStats}

CallLoadState ==
    /\ \E k \in DateKeys, roster \in Rosters :
          \E r \in {loadState(k, roster, Store)} :
              /\ todayKey' = k
              /\ STATIONS' = roster
              /\ gameState' = r.ret
              /\ localStorage' = r.ls.items
              /\ lastWrites' = r.ls.writes
    /\ pagePc' = "loadState"
    /\ UNCHANGED <<today, DIST_FROM_SOLUTION, stats, hint, knowledge, counted, graphVars,
                   bfsVars, keyboardVars, stationVars>>

CallSaveState ==
    /\ \E s \in SavedStates :
          \E ls \in {saveState(Store, s)} :
              /\ gameState' = s
              /\ localStorage' = ls.items
              /\ lastWrites' = ls.writes
    /\ pagePc' = "saveState"
    /\ UNCHANGED <<today, todayKey, STATIONS, DIST_FROM_SOLUTION, stats, hint, knowledge,
                   counted, graphVars, bfsVars, keyboardVars, stationVars>>

CallLoadStats ==
    /\ stats' = loadStats(Store)
    /\ pagePc' = "loadStats"
    /\ lastWrites' = <<>>
    /\ UNCHANGED <<today, todayKey, STATIONS, DIST_FROM_SOLUTION, gameState, hint,
                   knowledge, localStorage, counted, graphVars, bfsVars, keyboardVars, stationVars>>

CallSaveStats ==
    /\ \E st \in SavedStats :
          \E ls \in {saveStats(Store, st)} :
              /\ stats' = st
              /\ localStorage' = ls.items
              /\ lastWrites' = ls.writes
    /\ pagePc' = "saveStats"
    /\ UNCHANGED <<today, todayKey, STATIONS, DIST_FROM_SOLUTION, gameState, hint,
                   knowledge, counted, graphVars, bfsVars, keyboardVars, stationVars>>

StoreInit ==
    /\ pagePc = "closed"
    /\ today = 1
    /\ todayKey = NoDate
    /\ STATIONS = <<>>
    /\ DIST_FROM_SOLUTION = EmptyMap
    /\ gameState = UndefinedState
    /\ stats = FreshStats
    /\ hint = NoHint
    /\ knowledge = NoKnowledge
    /\ OthersIdle
    /\ \E a \in StoredStateItems, b \in StoredStatsItems :
          localStorage = (STORAGE_KEY :> a) @@ (STATS_KEY :> b)
    /\ lastWrites = <<>>
    /\ counted = <<>>
    /\ loadPc = "loaded"
    /\ graph = GameGraph
    /\ interchanges = GameInterchanges
    /\ nrows = 0
    /\ bfsPc = "idle"
    /\ start = NullQ
    /\ q = <<>>
    /\ dist = EmptyMap
    /\ nset = EmptyMap

StoreNext ==
    \/ CallLoadState
    \/ CallSaveState
    \/ CallLoadStats
    \/ CallSaveStats

SpecStore == StoreInit /\ [][StoreNext]_vars


\* The record stored under the GameState key: one of the records saved, when
\* the key holds the text of one.
StoredRecords == {s \in SavedStates : localStorage[STORAGE_KEY] = JSONstringify(StateProperties(s))}

\* C16: loadState(dateKey, roster) returns the stored GameState as it is exactly
\* when a record is stored whose dateKey is the requested one and whose
\* solutionId is the pick of that date; in every other case (nothing stored, a
\* record of another date or solution) it returns a state with no guesses and
\* status 'playing', and that state is what the store then holds.
C16_StoredOrFresh ==
    \A k \in DateKeys, r \in Rosters :
        LET res == loadState(k, r, Store)
            current == {s \in StoredRecords :
                           s.dateKey = k /\ s.solutionId = DailyPick(k, r).id}
        IN  IF current # {}
            THEN res.ret \in current
            ELSE /\ res.ret.guesses = <<>>
                 /\ res.ret.status = "playing"
                 /\ STORAGE_KEY \in Range(res.ls.writes)
                 /\ res.ls.items[STORAGE_KEY] = JSONstringify(StateProperties(res.ret))

\* loadState has just returned a stored game that has guesses, writing nothing.
C16_Witness ==
    /\ pagePc = "loadState"
    /\ gameState.guesses # <<>>
    /\ lastWrites = <<>>


\* A stored text that JSON.parse rejects.
Unparseable == {EmptyItem, BrokenItem}

\* C17: when the text stored under the Stats key does not parse, loadStats
\* returns the all-zero Stats; when the text stored under the GameState key
\* does not parse, or is a record of another date or of another solution,
\* loadState returns a state of the requested date with no guesses and status
\* 'playing'. Neither call ends with an exception.
C17_CorruptIsReinitialized ==
    /\ localStorage[STATS_KEY] \in Unparseable =>
          LET st == loadStats(Store)
          IN  /\ st # Thrown
              /\ st.played = 0 /\ st.wins = 0 /\ st.streak = 0 /\ st.best = 0
              /\ st.dist = <<0, 0, 0, 0, 0, 0>>
              /\ st.lastDate = NoDate
    /\ \A k \in DateKeys, r \in Rosters :
          LET stale == \E s \in StoredRecords :
                          s.dateKey # k \/ s.solutionId # DailyPick(k, r).id
              ret == loadState(k, r, Store).ret
          IN  (localStorage[STORAGE_KEY] \in Unparseable \/ stale) =>
                  /\ ret # Thrown
                  /\ ret.dateKey = k
                  /\ ret.guesses = <<>>
                  /\ ret.status = "playing"

\* loadStats has just been called over a Stats text that does not parse, after
\* loadState has replaced what was stored under the GameState key.
C17_Witness ==
    /\ pagePc = "loadStats"
    /\ localStorage[STATS_KEY] = BrokenItem
    /\ stats = FreshStats
    /\ todayKey # NoDate
    /\ gameState.guesses = <<>>


\* C18: round trip. Whatever the store holds, saveState(s) followed by
\* loadState(s.dateKey, roster) returns a record equal to s when s.solutionId is
\* the pick of that date under the roster, and saveStats(st) followed by
\* loadStats() returns a record equal to st.
C18_RoundTrip ==
    /\ \A s \in SavedStates, r \in Rosters :
          s.solutionId = DailyPick(s.dateKey, r).id =>
              loadState(s.dateKey, r, saveState(Store, s)).ret = s
    /\ \A st \in SavedStats : loadStats(saveStats(Store, st)) = st

\* A won game saved and loaded again, then Stats with a counted game loaded
\* from what saveStats stored.
C18_Witness ==
    /\ pagePc = "loadStats"
    /\ gameState.status = "won"
    /\ gameState.dateKey = todayKey
    /\ stats \in SavedStats
    /\ stats.played > 0
    /\ localStorage[STATS_KEY] = JSONstringify(StatsProperties(stats))


(***************************************************************************)
(* Specification of getKnownLineKnowledge alone: a game of any solution of *)
(* a roster, guesses of stations of the roster pushed in any order, and    *)
(* the knowledge computed at any time.                                     *)
(***************************************************************************)
\* The guesses pushed before the exploration stops.
MaxHistory == 3

\* The arguments at the start: a roster and a game of any solution of it, no
\* guess made.
KnowledgeInit ==
    /\ pagePc = "ready"
    /\ today = 1
    /\ todayKey = getSPDateKey(1)
    /\ STATIONS \in Rosters
    /\ \E i \in 1..Len(STATIONS) :
          gameState = [solutionId |-> STATIONS[i].id, dateKey |-> todayKey,
                       guesses |-> <<>>, status |-> "playing"]
    /\ DIST_FROM_SOLUTION = EmptyMap
    /\ stats = FreshStats
    /\ hint = NoHint
    /\ knowledge = NoKnowledge
    /\ OthersIdle
    /\ localStorage = EmptyStorage
    /\ lastWrites = <<>>
    /\ counted = <<>>
    /\ loadPc = "loaded"
    /\ graph = GameGraph
    /\ interchanges = GameInterchanges
    /\ nrows = 0
    /\ bfsPc = "idle"
    /\ start = NullQ
    /\ q = <<>>
    /\ dist = EmptyMap
    /\ nset = EmptyMap

\* gameState.guesses.push(match.id), for a station not guessed before
PushGuess ==
    /\ pagePc = "ready"
    /\ Len(gameState.guesses) < MaxHistory
    /\ \E i \in 1..Len(STATIONS) :
          /\ STATIONS[i].id \notin Range(gameState.guesses)
          /\ gameState' = [gameState EXCEPT !.guesses = Append(@, STATIONS[i].id)]
    /\ UNCHANGED <<pagePc, today, todayKey, STATIONS, DIST_FROM_SOLUTION, stats, hint,
                   knowledge, storeVars, graphVars, bfsVars, keyboardVars, stationVars>>

\* const knowledge = logic.getKnownLineKnowledge(gameState, STATIONS)
RenderSuggestions ==
    /\ pagePc = "ready"
    /\ knowledge' = getKnownLineKnowledge(gameState, STATIONS)
    /\ UNCHANGED <<pagePc, today, todayKey, STATIONS, DIST_FROM_SOLUTION, gameState, stats,
                   hint, storeVars, graphVars, bfsVars, keyboardVars, stationVars>>


KnowledgeNext ==
    \/ PushGuess
    \/ RenderSuggestions

SpecKnowledge == KnowledgeInit /\ [][KnowledgeNext]_vars

(***************************************************************************)
(* Claims on getKnownLineKnowledge.                                        *)
(***************************************************************************)
\* C19: for every solution and every sequence of guesses, the confirmed and
\* the eliminated set that getKnownLineKnowledge returns have no line id in
\* common: those of the last call, and those of a call made now.
C19_ConfirmedEliminatedDisjoint ==
    /\ knowledge.confirmed \cap knowledge.eliminated = {}
    /\ LET k == getKnownLineKnowledge(gameState, STATIONS)
       IN  k.confirmed \cap k.eliminated = {}

\* The knowledge computed after three guesses holds confirmed and eliminated lines.
C19_Witness ==
    /\ Len(gameState.guesses) = 3
    /\ knowledge = getKnownLineKnowledge(gameState, STATIONS)
    /\ knowledge.confirmed # {}
    /\ knowledge.eliminated # {}


\* The line ids of a station, as a set.
LineSet(station) == Range(station.lines)

\* The lines of all the stations guessed.
GuessedLines == UNION {LineSet(stationById(STATIONS, id)) : id \in Range(gameState.guesses)}

\* The guesses in every order.
Reorderings ==
    {p \in [1..Len(gameState.guesses) -> Range(gameState.guesses)] :
        Range(p) = Range(gameState.guesses)}

\* C20: getKnownLineKnowledge returns as confirmed the lines of the guessed
\* stations that are lines of the solution, and as eliminated the lines of the
\* guessed stations that are not; the guesses taken in any other order give
\* the same two sets; and a single guess with lines {1, 2} against a solution
\* with lines {1, 3} gives confirmed {1} and eliminated {2}.
C20_KnowledgeIsUnionSplit ==
    LET solutionLines == LineSet(stationById(STATIONS, gameState.solutionId))
        k == getKnownLineKnowledge(gameState, STATIONS)
    IN  /\ k.confirmed = GuessedLines \cap solutionLines
        /\ k.eliminated = GuessedLines \ solutionLines
        /\ \A p \in Reorderings :
              getKnownLineKnowledge([gameState EXCEPT !.guesses = p], STATIONS) = k
        /\ (gameState.solutionId = Se.id /\ gameState.guesses = <<AnaRosa.id>>) =>
              k = [confirmed |-> {"1"}, eliminated |-> {"2"}]

\* The solution is Se (lines 1 and 3), Ana Rosa (lines 1 and 2) is the one
\* guess, and the knowledge has been computed.
C20_Witness ==
    /\ gameState.solutionId = Se.id
    /\ gameState.guesses = <<AnaRosa.id>>
    /\ knowledge = [confirmed |-> {"1"}, eliminated |-> {"2"}]


(***************************************************************************)
(* Specification of nextAllowedChars alone: a roster, and a text that      *)
(* grows and shrinks by one character; allowed is nextAllowedChars of the  *)
(* text and the roster.                                                    *)
(***************************************************************************)
\* The length of the texts typed.
MaxInput == 3

\* The characters typed: letters of roster names in both cases, with and
\* without marks, the blank, and a letter that starts no name.
KeyChars == {"a", "n", "s", "S", "e", "e_acute", "l", " ", "x"}

\* A roster of two stations, named Se and Sao Paulo.
SaoPaulo == [id |-> "SAO", name |-> <<"S", "a_tilde", "o", " ", "P", "a", "u", "l", "o">>,
             lines |-> <<"1">>, wikidataId |-> 9]
SeSaoPaulo == <<Se, SaoPaulo>>

KeyboardInit ==
    /\ pagePc = "ready"
    /\ today = 1
    /\ todayKey = getSPDateKey(1)
    /\ STATIONS \in Rosters \cup {SeSaoPaulo}
    /\ gameState = [solutionId |-> STATIONS[1].id, dateKey |-> todayKey,
                    guesses |-> <<>>, status |-> "playing"]
    /\ DIST_FROM_SOLUTION = EmptyMap
    /\ stats = FreshStats
    /\ hint = NoHint
    /\ knowledge = NoKnowledge
    /\ guessInput = <<>>
    /\ allowed = nextAllowedChars(guessInput, STATIONS, <<>>)
    /\ keyDisabled = dataDisabled(TRUE, guessInput, allowed, KeyChars)
    /\ stationsPc = "loaded"
    /\ stationMap = <<>>
    /\ stationRows = <<>>
    /\ stationsCache = NullCache
    /\ localStorage = EmptyStorage
    /\ lastWrites = <<>>
    /\ counted = <<>>
    /\ loadPc = "loaded"
    /\ graph = GameGraph
    /\ interchanges = GameInterchanges
    /\ nrows = 0
    /\ bfsPc = "idle"
    /\ start = NullQ
    /\ q = <<>>
    /\ dist = EmptyMap
    /\ nset = EmptyMap

\* input.value += val, then nextAllowedChars(input.value, stations)
TypeChar ==
    /\ Len(guessInput) < MaxInput
    /\ \E val \in KeyChars :
          /\ guessInput' = Append(guessInput, val)
          /\ allowed' = nextAllowedChars(guessInput', STATIONS, <<>>)
          /\ keyDisabled' = dataDisabled(TRUE, guessInput', allowed', KeyChars)
    /\ UNCHANGED <<pageVars, storeVars, stationVars, graphVars, bfsVars>>

\* input.value = input.value.slice(0, -1), then nextAllowedChars(input.value, stations)
DeleteChar ==
    /\ guessInput # <<>>
    /\ guessInput' = SubSeq(guessInput, 1, Len(guessInput) - 1)
    /\ allowed' = nextAllowedChars(guessInput', STATIONS, <<>>)
    /\ keyDisabled' = dataDisabled(TRUE, guessInput', allowed', KeyChars)
    /\ UNCHANGED <<pageVars, storeVars, stationVars, graphVars, bfsVars>>

KeyboardNext ==
    \/ TypeChar
    \/ DeleteChar

SpecKeyboard == KeyboardInit /\ [][KeyboardNext]_vars

(***************************************************************************)
(* Claims on nextAllowedChars.                                             *)
(***************************************************************************)
\* The characters that follow the text t in the normalized names of a roster:
\* those c for which some normalized name has normalize(t) as a prefix and c
\* at the position after it.
Continuations(t, stations) ==
    {normalize(stations[i].name)[Len(normalize(t)) + 1] :
        i \in {j \in 1..Len(stations) :
                  /\ startsWith(normalize(stations[j].name), normalize(t))
                  /\ Len(normalize(stations[j].name)) > Len(normalize(t))}}

\* C21: for the text typed, blanks at its ends included, and the roster,
\* nextAllowedChars(t, roster) is exactly the set of the characters c such that
\* some normalized roster name has normalize(t) as a prefix and c at position
\* length(normalize(t)).
C21_AllowedIsContinuations == allowed = Continuations(guessInput, STATIONS)


\* The first characters of the normalized names of a roster.
FirstChars(stations) ==
    {normalize(stations[i].name)[1] : i \in {j \in 1..Len(stations) : stations[j].name # <<>>}}

\* Some normalized name of the roster is longer than the normalized text t and
\* starts with it.
StrictPrefixOfSomeName(t, stations) ==
    \E i \in 1..Len(stations) :
        /\ startsWith(normalize(stations[i].name), normalize(t))
        /\ Len(normalize(stations[i].name)) > Len(normalize(t))

\* C22: on the empty text nextAllowedChars returns exactly the first characters
\* of the normalized roster names ({'s'} for the roster of Se and Sao Paulo);
\* when no roster name has the text typed as a strict prefix it returns the
\* empty set, no character being added to avoid an empty result.
C22_EmptyInputAndDeadEnd ==
    /\ guessInput = <<>> => allowed = FirstChars(STATIONS)
    /\ nextAllowedChars(<<>>, SeSaoPaulo, <<>>) = {"s"}
    /\ ~StrictPrefixOfSomeName(guessInput, STATIONS) => allowed = {}


(***************************************************************************)
(* Claims on faults: stations absent from the graph.                       *)
(***************************************************************************)
\* The guesses of gs other than the solution whose station has no entry in the
\* distance mapping.
Unmapped(stations, gs, D) ==
    {i \in 1..Len(gs.guesses) :
        /\ gs.guesses[i] # gs.solutionId
        /\ stationById(stations, gs.guesses[i]).wikidataId \notin DOMAIN D}

\* C23: when a guessed station has no entry in the distance mapping, the
\* program surfaces a fault: after a guess is accepted, neither the rendering
\* of the guess list nor the share text is produced with a distance missing.
C23_MissingDistanceFaults ==
    pagePc = "ready" =>
        \A raw \in GuessInputs :
            Accepts(raw) =>
                LET gs == FormSubmitResult(raw).gameState
                IN  Unmapped(STATIONS, gs, DIST_FROM_SOLUTION) # {} =>
                        /\ renderGuesses(STATIONS, gs, DIST_FROM_SOLUTION) = TypeError
                        /\ buildShare(gs, STATIONS, DIST_FROM_SOLUTION) = TypeError


(***************************************************************************)
(* loadStations, row by row. stations.csv is any list of at most           *)
(* MaxCsvRows rows, each column taken from the values below.               *)
(***************************************************************************)
MaxCsvRows == 3

LabelLinha1 == <<"L", "i", "n", "h", "a", " ", "1", "-", "A", "z", "u", "l">>
LabelLinha11 == <<"L", "i", "n", "h", "a", " ", "1", "1", "en_dash", "C", "o", "r", "a", "l">>
LabelLinha4 == <<"4">>
LabelLinha6 == <<"L", "i", "n", "h", "a", " ", "6", "-", "L", "a", "r", "a", "n", "j", "a">>
LabelExpresso == <<"E", "x", "p", "r", "e", "s", "s", "o">>
NameEstacaoLuz == <<"E", "s", "t", "a", "c_cedil", "a_tilde", "o", " ", "L", "u", "z">>
NameTerminal == <<"T", "e", "r", "m", "i", "n", "a", "l", " ", "I", "n", "t", "e", "r", "m",
                  "o", "d", "a", "l", " ", "S", "e_acute">>
UrlLuz == <<"w", "d", "/", "Q", "5">>
UrlBras == <<"w", "d", "/", "Q", "2">>
UrlSe == <<"w", "d", "/", "Q", "7">>

LineLabels == {<<>>, LabelLinha1, LabelLinha11, LabelLinha4, LabelLinha6, LabelExpresso,
               RamalDeSaoPaulo}

CsvRow(code, label, url, line) ==
    [station_code |-> code, stationLabel |-> label, station |-> url,
     connecting_lineLabel |-> line]

\* The rows of a station, one for each line label, and the rows that are skipped.
CsvRows ==
    {CsvRow(<<"L", "U", "Z">>, NameEstacaoLuz, UrlLuz, l) : l \in LineLabels}
    \cup {CsvRow(<<"B", "A", "S">>, Bras.name, UrlBras, l) : l \in LineLabels}
    \cup {CsvRow(<<>>, Se.name, UrlSe, LabelLinha1),
          CsvRow(<<"P", "S", "E">>, Se.name, <<>>, LabelLinha1),
          CsvRow(<<"T", "I", "S">>, NameTerminal, UrlSe, LabelLinha1)}

RECURSIVE CsvFiles(_)
CsvFiles(n) ==
    IF n = 0 THEN {<<>>}
    ELSE CsvFiles(n - 1) \cup {Append(f, r) : f \in CsvFiles(n - 1), r \in CsvRows}

StationsInit ==
    /\ stationsPc = "rows"
    /\ stationMap = <<>>
    /\ stationRows \in CsvFiles(MaxCsvRows)
    /\ stationsCache = NullCache
    /\ pagePc = "closed"
    /\ today = 1
    /\ todayKey = getSPDateKey(1)
    /\ STATIONS = <<>>
    /\ gameState = [solutionId |-> "", dateKey |-> todayKey, guesses |-> <<>>,
                    status |-> "playing"]
    /\ DIST_FROM_SOLUTION = EmptyMap
    /\ stats = FreshStats
    /\ hint = NoHint
    /\ knowledge = NoKnowledge
    /\ guessInput = <<>>
    /\ allowed = {}
    /\ keyDisabled = NoButtons
    /\ localStorage = EmptyStorage
    /\ lastWrites = <<>>
    /\ counted = <<>>
    /\ loadPc = "loaded"
    /\ graph = GameGraph
    /\ interchanges = GameInterchanges
    /\ nrows = 0
    /\ bfsPc = "idle"
    /\ start = NullQ
    /\ q = <<>>
    /\ dist = EmptyMap
    /\ nset = EmptyMap

\* for (const r of rows) { ... }: one row, or the throw of normalizeLineLabel
StationRow ==
    /\ stationsPc = "rows"
    /\ stationRows # <<>>
    /\ \E out \in {loadStationsRow(stationMap, Head(stationRows))} :
          IF out = UnknownLine
          THEN /\ stationsPc' = "failed"
               /\ UNCHANGED <<stationMap, stationRows>>
          ELSE /\ stationMap' = out.map
               /\ stationRows' = Tail(stationRows)
               /\ UNCHANGED stationsPc
    /\ UNCHANGED <<stationsCache, pageVars, storeVars, keyboardVars, graphVars, bfsVars>>

\* stationsCache = Array.from(map.values()).sort(...); return stationsCache
StationsReturn ==
    /\ stationsPc = "rows"
    /\ stationRows = <<>>
    /\ stationsCache' = sortByName(stationMap)
    /\ stationsPc' = "loaded"
    /\ UNCHANGED <<stationMap, stationRows, pageVars, storeVars, keyboardVars, graphVars,
                   bfsVars>>

StationsNext ==
    \/ StationRow
    \/ StationsReturn

SpecStations == StationsInit /\ [][StationsNext]_vars

\* lines.ts: the ids of the LINES catalog
LINES == {"1", "2", "3", "4", "5", "7", "8", "9", "10", "11", "12", "13", "15"}

\* C24: loading stops with an error on every line label that is neither a line
\* of the LINES catalog nor an ignored label, and no station that was loaded
\* carries a line id outside the catalog.
C24_OnlyCatalogLines ==
    /\ \A i \in 1..Len(stationMap) :
          \A k \in 1..Len(stationMap[i].lines) : stationMap[i].lines[k] \in LINES
    /\ stationsPc = "loaded" =>
          \A i \in 1..Len(stationsCache) :
              \A k \in 1..Len(stationsCache[i].lines) : stationsCache[i].lines[k] \in LINES


\* The list has no element twice and is in the order of Array.prototype.sort.
SortedLines(lines) ==
    \A i, k \in 1..Len(lines) : i < k => StringLess(lines[i], lines[k])

\* C25: whatever the rows, each station that loadStations returns has at least
\* one line, its line ids are pairwise distinct and sorted, the station ids are
\* pairwise distinct and the roster is sorted by name.
C25_WellFormedRoster ==
    stationsPc = "loaded" =>
        /\ \A i \in 1..Len(stationsCache) :
              /\ Len(stationsCache[i].lines) >= 1
              /\ SortedLines(stationsCache[i].lines)
        /\ \A i, k \in 1..Len(stationsCache) :
              i < k => /\ stationsCache[i].id # stationsCache[k].id
                       /\ ~localeCompareLess(stationsCache[k].name, stationsCache[i].name)

\* The same without the demand for a line.
C25_WellFormedButLines ==
    stationsPc = "loaded" =>
        /\ \A i \in 1..Len(stationsCache) : SortedLines(stationsCache[i].lines)
        /\ \A i, k \in 1..Len(stationsCache) :
              i < k => /\ stationsCache[i].id # stationsCache[k].id
                       /\ ~localeCompareLess(stationsCache[k].name, stationsCache[i].name)


\* The stations an id resolves to.
KnownQIds == {STATIONS[i].wikidataId : i \in 1..Len(STATIONS)}

\* C26: a row of adjacencies.csv or interchanges.csv with an endpoint that is
\* the id of no station of the roster adds no vertex and no edge to the graph.
C26_OnlyKnownEndpoints ==
    /\ DOMAIN graph \subseteq KnownQIds
    /\ \A v \in DOMAIN graph : Range(graph[v]) \subseteq KnownQIds


\* C27: no guess is accepted and no GameState or Stats record is created or
\* written before the stations, the hops and the interchanges are loaded; they
\* are loaded once in a session.
C27_NothingBeforeLoad ==
    loadPc # "loaded" =>
        /\ gameState = UndefinedState
        /\ lastWrites = <<>>


\* C28: bfsDistances takes the vertices off the queue in non-decreasing order of
\* their labels: the vertex taken next never has a smaller label than the one
\* just taken, as when a vertex found over an interchange goes to the front.
C28_DequeuedInLabelOrder ==
    [][(bfsPc = "loop" /\ q # <<>> /\ q' # <<>>) => dist[Head(q)] <= dist'[Head(q')]]_vars


\* C29: onSubmitGuess rejects in a fixed order: station not found, then
\* duplicate guess, then game finished. In a finished game a text that resolves
\* to no station gets 'not found', a station already guessed gets 'duplicate'
\* and any other station gets 'finished'; the game state stays as it is.
C29_RejectionOrder ==
    (pagePc = "ready" /\ gameState.status # "playing") =>
        \A raw \in GuessInputs :
            Trimmed[raw] # <<>> =>
                LET match == Resolve(STATIONS, Trimmed[raw])
                    m == FormSubmitResult(raw)
                IN  /\ m.gameState = gameState
                    /\ m.hint = IF match = Undefined THEN HintNotFound
                                ELSE IF match.id \in Range(gameState.guesses)
                                     THEN HintDuplicate
                                ELSE HintFinished

\* A finished game in which a station already guessed was submitted again.
C29_Witness ==
    /\ pagePc = "ready"
    /\ gameState.status # "playing"
    /\ hint = HintDuplicate
    /\ \E raw \in GuessInputs :
          /\ Trimmed[raw] # <<>>
          /\ Resolve(STATIONS, Trimmed[raw]) # Undefined
          /\ Resolve(STATIONS, Trimmed[raw]).id \notin Range(gameState.guesses)


\* The places in the roster of the stations whose name is the text, ignoring case.
ExactMatches(stations, t) ==
    {i \in 1..Len(stations) : toLowerCase(stations[i].name) = toLowerCase(t)}

\* The places in the roster of the stations whose name contains the text,
\* ignoring case.
PartMatches(stations, t) ==
    {i \in 1..Len(stations) : includes(toLowerCase(stations[i].name), toLowerCase(t))}

\* The exact matches when there is one, else the stations that contain the text,
\* for the rosters and the trimmed texts of the model.
PreferredMatches ==
    [r \in Rosters |->
        [t \in GuessTexts |->
            IF ExactMatches(r, t) # {} THEN ExactMatches(r, t) ELSE PartMatches(r, t)]]

\* C30: a guess resolves to the station whose name is the trimmed text ignoring
\* case, even when an earlier station of the roster contains the text;
\* otherwise to the first station of the roster whose name contains the text;
\* a text contained in no name is rejected.
C30_ExactBeforePart ==
    (pagePc = "ready" /\ gameState.status = "playing") =>
        \A raw \in GuessInputs :
            Trimmed[raw] # <<>> =>
                LET hits == PreferredMatches[STATIONS][Trimmed[raw]]
                    first == CHOOSE i \in hits : \A k \in hits : i <= k
                    m == FormSubmitResult(raw)
                IN  IF hits = {}
                    THEN m.hint = HintNotFound /\ m.gameState = gameState
                    ELSE IF STATIONS[first].id \in Range(gameState.guesses)
                         THEN m.hint = HintDuplicate /\ m.gameState = gameState
                         ELSE m.gameState.guesses = Append(gameState.guesses, STATIONS[first].id)

\* Sé was guessed and José Bonifácio, which stands before it in the roster, was
\* not: the text "sé" is the name of the first and part of the name of the second.
C30_Witness ==
    /\ pagePc = "ready"
    /\ "PSE" \in Range(gameState.guesses)
    /\ "JBO" \notin Range(gameState.guesses)
    /\ \E raw \in GuessInputs :
          /\ ExactMatches(STATIONS, Trimmed[raw]) # {}
          /\ \E i \in PartMatches(STATIONS, Trimmed[raw]) :
                \A k \in ExactMatches(STATIONS, Trimmed[raw]) : i < k


\* C31: the adjacency map is symmetric, for the rows of adjacencies.csv and of
\* interchanges.csv alike, and the interchange key of a pair does not depend on
\* the order of the pair, so a neighbour over an interchange gets the label of
\* the current vertex in either direction.
C31_SymmetricGraph ==
    /\ \A a \in DOMAIN graph :
          \A b \in Range(graph[a]) : b \in DOMAIN graph /\ a \in Range(graph[b])
    /\ \A a, b \in QIds : makeInterchangeKey(a, b) = makeInterchangeKey(b, a)
    /\ \A key \in interchanges :
          /\ key[1] \in Range(graph[key[2]]) /\ key[2] \in Range(graph[key[1]])
          /\ \A d \in 0..NumQ :
                /\ NeighbourLabel(d, makeInterchangeKey(key[1], key[2]) \in interchanges) = d
                /\ NeighbourLabel(d, makeInterchangeKey(key[2], key[1]) \in interchanges) = d

\* The two files are read: there is an interchange between two stations and a
\* hop between two others.
C31_Witness ==
    /\ loadPc = "loaded"
    /\ interchanges # {}
    /\ \E a \in DOMAIN graph : \E b \in Range(graph[a]) : ~IsInterchangeEdge(a, b)


\* hashString('metrodlesp:' + dateKey) for the date keys of the model, as the
\* two 16-bit halves of the word
DailyHashes == [k \in DateKeys |-> hashString(HashPrefix \o k)]

\* FNV-1a, 32 bits, of 'metrodlesp:2025-10-12': 72339345 = 1103 * 2^16 + 53137
Fnv1aOfFirstDay == <<1103, 53137>>

ButtonValues == {"a", "b", "s", " "}

\* getKeywords(): the names of the lines after the dash; here that of line 1
Keywords == << <<"A", "z", "u", "l">> >>

\* getEnabled: () => gameState.status === 'playing'
getEnabled(m) == m.gameState.status = "playing"

\* onSubmitGuess for each name of the list, in turn
RECURSIVE Play(_, _)
Play(m, names) ==
    IF names = <<>> THEN m ELSE Play(onSubmitGuess(Head(names), m), Tail(names))

\* boot on the first day with an empty store and the roster r
Booted(r) ==
    LET l == loadState(getSPDateKey(1), r, [items |-> EmptyStorage, writes |-> <<>>])
    IN  [STATIONS |-> r, gameState |-> l.ret, stats |-> loadStats(l.ls), hint |-> NoHint,
         ls |-> l.ls, counted |-> <<>>]

\* The names of the first n stations of the roster that are not the solution.
WrongNames(m, n) ==
    LET wrong == SelectSeq(m.STATIONS, LAMBDA st : st.id # m.gameState.solutionId)
    IN  [i \in 1..n |-> wrong[i].name]

\* The games the keyboard starts with.
StartedGames ==
    UNION {{Booted(r),
            Play(Booted(r), WrongNames(Booted(r), 5)),
            Play(Booted(r), WrongNames(Booted(r), 6)),
            Play(Booted(r), <<DailyPick(getSPDateKey(1), r).name>>)} : r \in Rosters}

\* handleKey(val): the text of the input and the game after it, and whether
\* api.update() was called
handleKey(val, value, m) ==
    IF ~getEnabled(m) THEN [value |-> value, m |-> m, updated |-> FALSE]
    ELSE IF val = "BACKSPACE"
         THEN [value |-> SubSeq(value, 1, Len(value) - 1), m |-> m, updated |-> TRUE]
    ELSE IF val = "OK"
         THEN [value |-> <<>>,
               m |-> IF trim(value) # <<>> THEN onSubmitGuess(trim(value), m) ELSE m,
               updated |-> TRUE]
    ELSE [value |-> Append(value, val), m |-> m, updated |-> TRUE]

HandleKeyInit ==
    /\ pagePc = "ready"
    /\ today = 1
    /\ todayKey = getSPDateKey(1)
    /\ \E m \in StartedGames :
          /\ STATIONS = m.STATIONS
          /\ gameState = m.gameState
          /\ stats = m.stats
          /\ hint = m.hint
          /\ localStorage = m.ls.items
          /\ counted = m.counted
          /\ allowed = update(getEnabled(m), <<>>, m.STATIONS, Keywords, ButtonValues).allowed
          /\ keyDisabled =
                update(getEnabled(m), <<>>, m.STATIONS, Keywords, ButtonValues).disabled
    /\ lastWrites = <<>>
    /\ guessInput = <<>>
    /\ DIST_FROM_SOLUTION = DistancesFrom(GameGraph, GameInterchanges,
                                stationById(STATIONS, gameState.solutionId).wikidataId)
    /\ knowledge = NoKnowledge
    /\ stationsPc = "loaded"
    /\ stationMap = <<>>
    /\ stationRows = <<>>
    /\ stationsCache = NullCache
    /\ loadPc = "loaded"
    /\ graph = GameGraph
    /\ interchanges = GameInterchanges
    /\ nrows = 0
    /\ bfsPc = "idle"
    /\ start = NullQ
    /\ q = <<>>
    /\ dist = EmptyMap
    /\ nset = EmptyMap

\* A click on a button of the keyboard, or handleKey('BACKSPACE'), handleKey('OK')
HandleKey ==
    /\ pagePc = "ready"
    /\ \E val \in ButtonValues \cup {"BACKSPACE", "OK"} :
          /\ val \in ButtonValues /\ getEnabled(Machine) => Len(guessInput) < MaxInput
          /\ \E k \in {handleKey(val, guessInput, Machine)} :
                /\ guessInput' = k.value
                /\ gameState' = k.m.gameState
                /\ stats' = k.m.stats
                /\ hint' = k.m.hint
                /\ localStorage' = k.m.ls.items
                /\ lastWrites' = k.m.ls.writes
                /\ counted' = k.m.counted
                /\ IF k.updated
                   THEN \E u \in {update(getEnabled(k.m), k.value, STATIONS, Keywords,
                                         ButtonValues)} :
                            /\ allowed' = u.allowed
                            /\ keyDisabled' = u.disabled
                   ELSE UNCHANGED <<allowed, keyDisabled>>
    /\ UNCHANGED <<pagePc, today, todayKey, STATIONS, DIST_FROM_SOLUTION, knowledge,
                   graphVars, bfsVars, stationVars>>

HandleKeyNext == HandleKey

SpecHandleKey == HandleKeyInit /\ [][HandleKeyNext]_vars

C33_State ==
    gameState.status # "playing" =>
        /\ \A v \in DOMAIN keyDisabled : keyDisabled[v]
        /\ \A v \in ButtonValues :
              update(getEnabled(Machine), guessInput, STATIONS, Keywords,
                     ButtonValues).disabled[v]

C33_Step ==
    gameState.status # "playing" =>
        /\ guessInput' = guessInput
        /\ gameState' = gameState
        /\ localStorage' = localStorage
        /\ stats' = stats

\* C33: while the status is not 'playing', a press of a key of the keyboard (a
\* character, BACKSPACE or OK) leaves the text of the input as it is and
\* submits no guess, and update() marks every key disabled.
C33_KeyboardOffWhenFinished == [](C33_State) /\ [][C33_Step]_vars

\* The game was ended with the OK key: the text is empty again, the state was
\* written and the keys are marked disabled.
C33_Witness ==
    /\ gameState.status # "playing"
    /\ lastWrites # <<>>
    /\ guessInput = <<>>
    /\ \A v \in ButtonValues : keyDisabled[v]


\* What C34 demands of the share text but for the distances: the lines, the
\* title, the rows in the order of the guesses with the train on the solution
\* alone, the attempts and the site.
ShareShape(gs, share) ==
    LET lines == shareLines(share)
        n == Len(gs.guesses)
    IN  /\ Len(lines) = n + 3
        /\ lines[1] = [title |-> gs.dateKey]
        /\ \A i \in 1..n :
              /\ lines[i + 1] = [row |-> ShareRow(STATIONS, gs, DIST_FROM_SOLUTION, i)]
              /\ lines[i + 1].row.train <=> gs.guesses[i] = gs.solutionId
        /\ lines[n + 2] = [attempts |-> IF gs.status = "won" THEN <<n>> ELSE <<"X">>]
        /\ lines[n + 3] = [site |-> "yancouto.github.io/metrodlesp"]

\* C34: after the form is submitted with any text, buildShare returns
\* (number of guesses + 3) lines: the title with the
\* date key, one row for each guess in the order of the guesses, the attempts
\* ('N/6' when won, 'X/6' otherwise) and the site; a row has the train when its
\* guess is the solution and a distance otherwise.
C34_ShareText ==
    pagePc = "ready" =>
        \A raw \in GuessInputs :
            LET gs == FormSubmitResult(raw).gameState
                share == buildShare(gs, STATIONS, DIST_FROM_SOLUTION)
            IN  /\ share # TypeError
                /\ ShareShape(gs, share)
                /\ \A i \in 1..Len(gs.guesses) :
                      IF share.rows[i].train
                      THEN share.rows[i].distTxt = <<>>
                      ELSE /\ Len(share.rows[i].distTxt) = 1
                           /\ share.rows[i].distTxt[1] \in Nat

\* The same without the distances.
C34_ShareTextButDistances ==
    pagePc = "ready" =>
        \A raw \in GuessInputs :
            LET gs == FormSubmitResult(raw).gameState
                share == buildShare(gs, STATIONS, DIST_FROM_SOLUTION)
            IN  share # TypeError /\ ShareShape(gs, share)


(***************************************************************************)
(* bfsDistances from every station of a loaded graph. adjacencies.csv and  *)
(* interchanges.csv are any lists of rows between NumStations stations, of *)
(* at most MaxHopRows and MaxInterchangeRows rows.                         *)
(***************************************************************************)
NumStations == 4
MaxHopRows == 1
MaxInterchangeRows == 3

\* The rows (a, b) of a file; (b, a) gives addEdge the same edge.
OrderedPairRows == {r \in (1..NumStations) \X (1..NumStations) : r[1] < r[2]}

RECURSIVE RowFiles(_)
RowFiles(n) ==
    IF n = 0 THEN {<<>>}
    ELSE RowFiles(n - 1) \cup {Append(f, r) : f \in RowFiles(n - 1), r \in OrderedPairRows}

\* loadAdjacencyGraph run to its return on the two files
DistancesInit ==
    /\ \E hops \in RowFiles(MaxHopRows), ixs \in RowFiles(MaxInterchangeRows) :
          /\ graph = LoadRows(LoadRows(EmptyMap, hops), ixs)
          /\ interchanges = {makeInterchangeKey(r[1], r[2]) : r \in Range(ixs)}
          /\ nrows = Len(hops) + Len(ixs)
    /\ loadPc = "loaded"
    /\ bfsPc = "idle"
    /\ start = NullQ
    /\ q = <<>>
    /\ dist = EmptyMap
    /\ nset = EmptyMap
    /\ pagePc = "closed"
    /\ today = 1
    /\ todayKey = NoDate
    /\ STATIONS = <<>>
    /\ DIST_FROM_SOLUTION = EmptyMap
    /\ gameState = UndefinedState
    /\ stats = FreshStats
    /\ hint = NoHint
    /\ knowledge = NoKnowledge
    /\ OthersIdle
    /\ localStorage = EmptyStorage
    /\ lastWrites = <<>>
    /\ counted = <<>>

\* bfsDistances(start, graph), from its entry to return dist
bfsCall ==
    /\ loadPc = "loaded"
    /\ \E s \in DOMAIN graph :
          /\ start' = s
          /\ dist' = bfsDistances(graph, interchanges, s)
    /\ bfsPc' = "done"
    /\ UNCHANGED <<q, nset, graphVars, gameVars>>

DistancesNext == bfsCall

SpecDistances == DistancesInit /\ [][DistancesNext]_vars

\* Every station is reached from the start.
Connected == DOMAIN dist = DOMAIN graph

\* C35: in a connected graph the distance bfsDistances(A) gives B is the one
\* bfsDistances(B) gives A.
C35_DistancesSymmetric ==
    (bfsPc = "done" /\ Connected) =>
        \A b \in DOMAIN graph : dist[b] = bfsDistances(graph, interchanges, b)[start]


\* C36: after every completed onSubmitGuess the game state in memory has status
\* 'won' exactly when the solution is in the guess list, and then it is the
\* last guess; 'lost' exactly when the list has 6 entries without the solution;
\* and 'playing' otherwise, with fewer than 6 entries.
C36_StatusMatchesGuesses ==
    pagePc = "ready" =>
        LET n == Len(gameState.guesses)
            solved == gameState.solutionId \in Range(gameState.guesses)
        IN  /\ gameState.status \in {"playing", "won", "lost"}
            /\ gameState.status = "won" <=> solved
            /\ solved => gameState.guesses[n] = gameState.solutionId
            /\ gameState.status = "lost" <=> (n = 6 /\ ~solved)
            /\ gameState.status = "playing" => n < 6

\* Each of the three statuses is met: here a game won at its third guess.
C36_Witness ==
    /\ pagePc = "ready"
    /\ gameState.status = "won"
    /\ Len(gameState.guesses) = 3
    /\ gameState.guesses[3] = gameState.solutionId
    /\ lastWrites # <<>>

\* A game record is status-consistent when it is not 'playing' with the
\* solution among its guesses or with 6 guesses.
Decided(gs) == gs.solutionId \in Range(gs.guesses) \/ Len(gs.guesses) = 6

StatusConsistent(gs) == ~(gs.status = "playing" /\ Decided(gs))

\* The stores one accepted submission leaves behind, in the order written:
\* after the saveState that follows the push, and after the handler.
WrittenStores(raw) ==
    <<pushGuess(Resolve(STATIONS, Trimmed[raw]), Machine).ls.items,
      FormSubmitResult(raw).ls.items>>

\* The page as a reload finds it over the store items: loadState(todayKey).
Reloaded(items) ==
    [Machine EXCEPT !.ls = [items |-> items, writes |-> <<>>],
                    !.gameState = loadState(todayKey, STATIONS,
                                            [items |-> items, writes |-> <<>>]).ret]

\* C37: every game record an accepted submission writes to the store is
\* status-consistent, and the page reloaded over any one of these writes
\* accepts no further guess once the game is decided.
C37_WrittenStatesConsistent ==
    pagePc = "ready" =>
        \A raw \in GuessInputs :
            Accepts(raw) =>
                \A i \in 1..2 :
                    LET r == Reloaded(WrittenStores(raw)[i])
                    IN  /\ StatusConsistent(r.gameState)
                        /\ Decided(r.gameState) =>
                               \A next \in GuessInputs :
                                   Trimmed[next] # <<>> =>
                                       onSubmitGuess(Trimmed[next], r).gameState
                                           = r.gameState

\* The same statement of the store a completed handler leaves: the second
\* write alone. It holds, so the fault is the first write.
C37_LastWriteConsistent ==
    pagePc = "ready" =>
        \A raw \in GuessInputs :
            Accepts(raw) =>
                LET r == Reloaded(WrittenStores(raw)[2])
                IN  /\ StatusConsistent(r.gameState)
                    /\ Decided(r.gameState) =>
                           \A next \in GuessInputs :
                               Trimmed[next] # <<>> =>
                                   onSubmitGuess(Trimmed[next], r).gameState = r.gameState

\* C38: from the all-zero Stats record, after any finished games over the date
\* keys, wins <= played, streak <= best <= wins, no bucket of the histogram is
\* negative and the six buckets sum to wins.
C38_StatsInvariant ==
    /\ stats.wins <= stats.played
    /\ stats.streak <= stats.best
    /\ stats.best <= stats.wins
    /\ \A i \in 1..6 : stats.dist[i] >= 0
    /\ stats.dist[1] + stats.dist[2] + stats.dist[3]
           + stats.dist[4] + stats.dist[5] + stats.dist[6] = stats.wins

\* A win in more than one guess and then a loss on the next day have been
\* counted: wins < played, streak < best, and one bucket other than the first
\* holds the win.
C38_Witness ==
    /\ pagePc = "ready"
    /\ gameState.status = "lost"
    /\ stats.played = 2
    /\ stats.wins = 1
    /\ stats.best = 1
    /\ stats.streak = 0
    /\ stats.dist[1] = 0
    /\ lastWrites # <<>>

\* C39: every Stats record loadStats returns has a histogram of 6 buckets,
\* whatever text is stored under the Stats key, the text of a record written
\* without the histogram included; so stats.dist[attempts - 1] += 1 in endGame
\* has a bucket to increment.
C39_LoadStatsHasHistogram ==
    pagePc = "loadStats" =>
        /\ "dist" \in DOMAIN stats
        /\ Len(stats.dist) = 6

\* The same statement of the texts the present saveStats writes and of the
\* texts that are empty or do not parse: it holds, so the fault is the record
\* of the earlier format alone.
C39_HistogramUnlessLegacy ==
    (pagePc = "loadStats" /\ localStorage[STATS_KEY] # LegacyStatsItem) =>
        /\ "dist" \in DOMAIN stats
        /\ Len(stats.dist) = 6

====
